---- MODULE Spec2Model ----
(***************************************************************************)
(* Model of the background-refresh / database-swap protocol of the         *)
(* documentation search server: DatabaseManager (services/db_manager.py),  *)
(* RefreshOrchestrator (services/refresh_orchestrator.py) and the lazy     *)
(* service initialisation of the MCP server (mcp_server.py), all acting on *)
(* one directory that holds the live store, the candidate store and the    *)
(* timestamped backups.                                                    *)
(***************************************************************************)
EXTENDS Integers, Sequences, FiniteSets, TLC

\* ------------------------------------------------------------------ bounds
MaxClock == 1        \* seconds the wall clock may advance (backup name suffixes)
MaxSwaps == 2        \* direct calls of swap_databases
MaxRefreshes == 2    \* calls of refresh_once
MaxFaults == 1       \* operating-system failures of a file operation

Queries == {"q1", "q2"}
Refreshers == {"scheduled", "oneshot"}
NoHolder == "nobody"
NoName == -1

\* ------------------------------------------------------------------- files
\* A file of the data directory.  data identifies the rows it holds (0: none),
\* tables is its schema, ok the answer of PRAGMA integrity_check, mtime the
\* order of its last write.
NoFile == [exists |-> FALSE, data |-> 0, tables |-> {}, ok |-> FALSE, mtime |-> 0]

\* Schema created by VectorStore._create_tables.
FullSchema == {"chunks", "vec_chunks", "metadata", "chunks_fts"}

\* What sqlite3.connect leaves at a path that held no file: an empty database.
EmptyDb(t) == [exists |-> TRUE, data |-> 0, tables |-> {}, ok |-> TRUE, mtime |-> t]

\* The store a previous build left at config.db_path.
InitialStore == [exists |-> TRUE, data |-> 1, tables |-> FullSchema, ok |-> TRUE, mtime |-> 0]

EmptyBackups == [n \in {} |-> NoFile]

VARIABLES
    live,          \* file at config.db_path (active_path)
    temp,          \* file at config.db_temp_path (temp_path)
    backups,       \* backup name suffix -> file, for the backups that exist
    now,           \* wall clock, in seconds
    wseq,          \* number of file writes so far (orders the mtimes)
    faults,        \* operating-system failures so far
    lockHolder,    \* owner of _db_swap_lock
    vector_store,  \* mcp_server._vector_store is set
    queryPc,       \* position of each _get_services call
    queryErr,      \* error the last _get_services call of each query raised
    refreshPc,     \* position of each refresh_once call
    refreshResult, \* RefreshResult the last finished refresh_once returned
    built,         \* what the build of each running refresh_once left behind
    refreshes,     \* calls of refresh_once so far
    swapPc,        \* position of the swap_databases call
    swSeen,        \* candidate file the integrity check looked at
    swName,        \* backup_path of the call (NoName: None)
    swBacked,      \* file the call renamed to backup_path
    swOps,         \* file operations the call performed
    swErr,         \* exception the call raised
    swaps,         \* calls of swap_databases so far
    store,         \* a VectorStore under insert_chunk calls (see StoreSpec)
    chunking,      \* a Chunker.chunk call: its document and result (see ChunkSpec)
    fusion,        \* a _reciprocal_rank_fusion call: its lists and result (see FusionSpec)
    listing,      \* a semantic or keyword query: raw results and result (see ListingSpec)
    tool,         \* a query_docs or get_chunk call: arguments, environment, outcome (see ToolSpec)
    ingest,       \* a parse-and-chunk loop of the build over cached documents (see IngestSpec)
    lifecycle,    \* main(): what _startup_sync set and _shutdown_sync did (see LifecycleSpec)
    fetch         \* a WebsiteFetcher._fetch_with_retries call for one URL (see FetchSpec)

fsVars == <<live, temp, backups>>
clockVars == <<now, wseq, faults>>
queryVars == <<lockHolder, vector_store, queryPc, queryErr>>
refreshVars == <<refreshPc, refreshResult, built, refreshes>>
swapVars == <<swapPc, swSeen, swName, swBacked, swOps, swErr, swaps>>
libVars == <<store, chunking, fusion, listing, tool, ingest, lifecycle, fetch>>
vars == <<fsVars, clockVars, queryVars, refreshVars, swapVars, libVars>>

\* Chunk ids and the tables insert_chunk writes, in the order it writes them.
ChunkIds == {"a", "b"}
InsertWrites == <<"chunks", "vec_chunks", "chunk_embeddings_metadata", "chunks_fts">>

\* The tables of a store: for each chunk id the version of its row in chunks,
\* vec_chunks and chunk_embeddings_metadata (0: no row), and the rows of
\* chunks_fts as <<chunk_id, version>> pairs in insertion order.
EmptyTables ==
    [chunks |-> [id \in ChunkIds |-> 0],
     vec_chunks |-> [id \in ChunkIds |-> 0],
     chunk_embeddings_metadata |-> [id \in ChunkIds |-> 0],
     chunks_fts |-> <<>>]

\* VectorStore(db_path) as __init__ leaves it, of kind "file" or "memory"
\* (db_path ":memory:").  schema: the database the next connection opens has
\* the tables; tables: its rows; _memory_conn: the persistent connection
\* (0: None, else the number of the in-memory database it holds); gen:
\* in-memory connections made so far; open: connections not yet closed;
\* used: the connection the last operation ran on (0: one of its own);
\* before, result, id, version: the last operation's view and outcome.
NewStore(kind) ==
    [kind |-> kind, schema |-> FALSE, tables |-> EmptyTables,
     before |-> EmptyTables, result |-> "none", id |-> "a", version |-> 0,
     inserts |-> 0, _memory_conn |-> 0, gen |-> 0, open |-> 0, used |-> 0,
     closes |-> 0]

\* A document handed to Chunker.chunk, as token counts: text is the length
\* of parsed_content.text, sections the lengths of the section contents, and
\* joint the tokens "\n\n".join adds per joint (the separator merges with
\* a trailing newline into one token, or is a token of its own).
Document(text, sections, joint) ==
    [text |-> text, sections |-> sections, joint |-> joint,
     out |-> <<>>, raised |-> FALSE, done |-> FALSE]

\* No Chunker is exercised beside the server.
NoChunking == Document(0, <<>>, 0)

\* A hybrid query at _reciprocal_rank_fusion: the chunk ids of the semantic
\* and of the keyword results in rank order, and the limit and min_score of
\* the query (scores are fractions <<numerator, denominator>>; a min_score
\* of None counts as 0, both are falsy).
Fusion(semantic_results, keyword_results, limit, min_score) ==
    [semantic_results |-> semantic_results, keyword_results |-> keyword_results,
     limit |-> limit, min_score |-> min_score, results |-> <<>>, done |-> FALSE]

\* No hybrid query is exercised beside the server.
NoFusion == Fusion(<<>>, <<>>, 1, <<0, 1>>)

\* A semantic or keyword query at the formatting loop of SearchService.query:
\* raw_results holds what the store returned per row, in the order returned
\* (the distance of vec_chunks, or the rank of chunks_fts), min_score is a
\* fraction (None counts as 0, both are falsy).
Listing(query_type, raw_results, min_score) ==
    [query_type |-> query_type, raw_results |-> raw_results,
     min_score |-> min_score, results |-> <<>>, done |-> FALSE]

\* No semantic or keyword query is exercised beside the server.
NoListing == Listing("none", <<>>, <<0, 1>>)

\* A call of a tool of the MCP server: args are the caller's arguments, env
\* says how the services behave during the call, outcome is what the caller
\* gets (kind "returned", or the class of the exception raised and its error
\* code), reached the core components the call got to.
ToolCall(name, args, env) ==
    [name |-> name, args |-> args, env |-> env,
     outcome |-> [kind |-> "none", code |-> 0], reached |-> {}, done |-> FALSE,
     requests |-> 1]

\* No tool call is exercised beside the server.
NoTool == ToolCall("none", <<>>, <<>>)

\* A parse-and-chunk loop of the build: files says, per cached document in
\* the order of the loop, what processing it does; i is the document the
\* loop is at, all_chunks the documents whose chunks were collected, raised
\* whether an exception left the loop.
Ingest(source, files) ==
    [source |-> source, files |-> files, i |-> 1, all_chunks |-> <<>>,
     raised |-> FALSE]

\* No build is exercised beside the server.
NoIngest == Ingest("none", <<>>)

\* main() of the server before _startup_sync.  startup, stop and shutdown
\* say how the calls of this run behave (where _startup_sync ends, what
\* remove_job does, what shutdown does on a running scheduler);
\* _refresh_orchestrator and _scheduler are the module globals (FALSE: None),
\* job the "doc_refresh" job, running the scheduler's state; calls and
\* logged are what _shutdown_sync called and logged as errors, raised
\* whether an exception left it.
NoLifecycle ==
    [pc |-> "main", startup |-> "disabled", stop |-> "removed", shutdown |-> "ok",
     _refresh_orchestrator |-> FALSE, _scheduler |-> FALSE, job |-> FALSE,
     running |-> FALSE, calls |-> <<>>, logged |-> <<>>, raised |-> FALSE]

\* A _fetch_with_retries call before its first attempt: max_retries is
\* fetching_config.max_retries, responses says what client.get does in each
\* attempt, requests counts the calls of client.get, outcome is "returned"
\* with the FetchResult's status and success, or "raised".
NoFetch ==
    [max_retries |-> 1, responses |-> <<>>, requests |-> 0, outcome |-> "none",
     status |-> 0, success |-> FALSE, done |-> FALSE]

\* No VectorStore of its own is exercised beside the server.
NoStore == NewStore("none")

NoResult == [success |-> FALSE, error |-> "none", built |-> "nothing", returned |-> FALSE]

Init ==
    /\ live \in {NoFile, InitialStore}
    /\ temp = NoFile
    /\ backups = EmptyBackups
    /\ now = 0
    /\ wseq = 0
    /\ faults = 0
    /\ lockHolder = NoHolder
    /\ vector_store = FALSE
    /\ queryPc = [q \in Queries |-> "idle"]
    /\ queryErr = [q \in Queries |-> "none"]
    /\ refreshPc = [r \in Refreshers |-> "idle"]
    /\ refreshResult = NoResult
    /\ built = [r \in Refreshers |-> "nothing"]
    /\ refreshes = 0
    /\ swapPc = "idle"
    /\ swSeen = NoFile
    /\ swName = NoName
    /\ swBacked = NoFile
    /\ swOps = {}
    /\ swErr = "none"
    /\ swaps = 0
    /\ store = NoStore
    /\ chunking = NoChunking
    /\ fusion = NoFusion
    /\ listing = NoListing
    /\ tool = NoTool
    /\ ingest = NoIngest
    /\ lifecycle = NoLifecycle
    /\ fetch = NoFetch

\* An operating-system failure may strike a file operation.
MayFail == faults < MaxFaults

\* ------------------------------------------------- DatabaseManager (swap)
RequiredTables == {"chunks", "vec_chunks", "metadata"}

\* Faulty variant of the integrity check: the required tables are not looked for.
check_without_tables(f) ==
    IF ~f.exists THEN "Database file does not exist"
    ELSE IF ~f.ok THEN "Database integrity check failed"
    ELSE "ok"

\* DatabaseManager._check_db_integrity: "ok", or the message of the
\* IntegrityCheckError it raises.
_check_db_integrity(f) ==
    IF ~f.exists THEN "Database file does not exist"
    ELSE IF ~f.ok THEN "Database integrity check failed"
    ELSE IF ~(RequiredTables \subseteq f.tables) THEN "Missing required tables"
    ELSE "ok"

\* Parameters swap_databases declares (besides self).
swap_databases_params == {"temp_path", "active_path"}

\* A Python call binds only keyword arguments the callee declares; otherwise
\* it raises TypeError before the callee's body runs.
CallBinds(kwargs, params) == kwargs \subseteq params

\* Names of the existing backups, most recently modified first
\* (sorted(glob, key=os.path.getmtime, reverse=True)).
RECURSIVE SortedByMtime(_, _)
SortedByMtime(bk, names) ==
    IF names = {} THEN <<>>
    ELSE LET newest == CHOOSE n \in names : \A m \in names : bk[m].mtime <= bk[n].mtime
         IN <<newest>> \o SortedByMtime(bk, names \ {newest})

\* DatabaseManager._cleanup_old_backups: unlinks the backups after the first
\* keep_count of the sorted list, in order; `done` is the number of unlinks
\* that succeed before one raises (the exception is logged, not propagated).
_cleanup_old_backups(bk, keep_count, done) ==
    LET sorted == SortedByMtime(bk, DOMAIN bk)
        gone == {sorted[i] : i \in (keep_count + 1)..(keep_count + done)}
    IN [n \in DOMAIN bk \ gone |-> bk[n]]

\* Number of backups _cleanup_old_backups wants to unlink.
Surplus(bk, keep_count) ==
    IF Cardinality(DOMAIN bk) > keep_count THEN Cardinality(DOMAIN bk) - keep_count ELSE 0

SwapFinished == {"idle", "returned", "raised", "abandoned"}

\* swap_databases(temp_path, active_path), called directly: step 1, the
\* integrity check of the candidate.
swap_databases_verify ==
    /\ swapPc \in SwapFinished
    /\ swaps < MaxSwaps
    /\ CallBinds({"temp_path", "active_path"}, swap_databases_params)
    /\ swaps' = swaps + 1
    /\ swSeen' = temp
    /\ swName' = NoName
    /\ swBacked' = NoFile
    /\ swOps' = {}
    /\ IF _check_db_integrity(temp) = "ok"
       THEN swapPc' = "backup" /\ swErr' = "none"
       ELSE swapPc' = "raised" /\ swErr' = _check_db_integrity(temp)
    /\ UNCHANGED <<fsVars, clockVars, queryVars, refreshVars, libVars>>

\* Step 2: backup_path is named after the current second (the wall clock is
\* read here, and may have advanced since it was last read); the live store,
\* if there is one, is renamed to it (os.rename replaces a backup of that name).
swap_databases_backup ==
    /\ swapPc = "backup"
    /\ \E t \in {now, now + 1} :
          /\ t <= MaxClock
          /\ now' = t
          /\ IF live.exists
             THEN \/ /\ backups' = [n \in DOMAIN backups \cup {t} |->
                                       IF n = t THEN live ELSE backups[n]]
                     /\ live' = NoFile
                     /\ swName' = t
                     /\ swBacked' = live
                     /\ swOps' = swOps \cup {"rename active->backup"}
                     /\ swapPc' = "promote"
                     /\ UNCHANGED faults
                  \/ /\ MayFail
                     /\ faults' = faults + 1
                     /\ swName' = t
                     /\ swapPc' = "except"
                     /\ UNCHANGED <<live, backups, swBacked, swOps>>
             ELSE /\ swName' = NoName
                  /\ swapPc' = "promote"
                  /\ UNCHANGED <<live, backups, swBacked, swOps, faults>>
    /\ UNCHANGED <<temp, wseq, queryVars, refreshVars, libVars, swSeen, swErr, swaps>>

\* Step 3: the candidate is renamed into the live path.
swap_databases_promote ==
    /\ swapPc = "promote"
    /\ \/ /\ temp.exists
          /\ live' = temp
          /\ temp' = NoFile
          /\ swOps' = swOps \cup {"rename temp->active"}
          /\ swapPc' = "prune"
          /\ UNCHANGED faults
       \/ /\ ~temp.exists
          /\ swapPc' = "except"
          /\ UNCHANGED <<live, temp, swOps, faults>>
       \/ /\ temp.exists
          /\ MayFail
          /\ faults' = faults + 1
          /\ swapPc' = "except"
          /\ UNCHANGED <<live, temp, swOps>>
    /\ UNCHANGED <<backups, now, wseq, queryVars, refreshVars, libVars,
                   swSeen, swName, swBacked, swErr, swaps>>

\* Step 4: old backups are pruned when this call made a backup; the call returns.
swap_databases_prune ==
    /\ swapPc = "prune"
    /\ IF swName # NoName /\ swName \in DOMAIN backups
       THEN \E done \in 0..Surplus(backups, 1) :
               /\ done < Surplus(backups, 1) => MayFail
               /\ faults' = IF done < Surplus(backups, 1) THEN faults + 1 ELSE faults
               /\ backups' = _cleanup_old_backups(backups, 1, done)
               /\ swOps' = IF done > 0 THEN swOps \cup {"unlink backup"} ELSE swOps
       ELSE UNCHANGED <<backups, faults, swOps>>
    /\ swapPc' = "returned"
    /\ UNCHANGED <<live, temp, now, wseq, queryVars, refreshVars, libVars,
                   swSeen, swName, swBacked, swErr, swaps>>

\* Faulty variant of the except branch: the error is raised without the backup
\* being renamed back.
rollback_without_restore ==
    /\ swapPc = "except"
    /\ swapPc' = "raised"
    /\ swErr' = "Database swap failed"
    /\ UNCHANGED <<fsVars, clockVars, queryVars, refreshVars, libVars,
                   swSeen, swName, swBacked, swOps, swaps>>

\* Faulty variant of the except branch: a failed rollback raises the same
\* error as a rollback that worked.
rollback_failure_unreported ==
    /\ swapPc = "except"
    /\ swapPc' = "raised"
    /\ swErr' = "Database swap failed"
    /\ IF swName # NoName /\ swName \in DOMAIN backups
       THEN \/ /\ live' = backups[swName]
               /\ backups' = [n \in DOMAIN backups \ {swName} |-> backups[n]]
               /\ swOps' = swOps \cup (IF live.exists THEN {"remove active"} ELSE {})
                                 \cup {"rename backup->active"}
               /\ UNCHANGED faults
            \/ /\ MayFail
               /\ faults' = faults + 1
               /\ \/ live.exists /\ UNCHANGED <<live, swOps>>
                  \/ live' = NoFile
                     /\ swOps' = swOps \cup (IF live.exists THEN {"remove active"} ELSE {})
               /\ UNCHANGED backups
       ELSE UNCHANGED <<live, backups, swOps, faults>>
    /\ UNCHANGED <<temp, now, wseq, queryVars, refreshVars, libVars,
                   swSeen, swName, swBacked, swaps>>

\* Step 5: the except branch rolls back from backup_path, if a file of that
\* name exists, and raises.
swap_databases_rollback ==
    /\ swapPc = "except"
    /\ swapPc' = "raised"
    /\ IF swName # NoName /\ swName \in DOMAIN backups
       THEN \/ /\ live' = backups[swName]
               /\ backups' = [n \in DOMAIN backups \ {swName} |-> backups[n]]
               /\ swOps' = swOps \cup (IF live.exists THEN {"remove active"} ELSE {})
                                 \cup {"rename backup->active"}
               /\ swErr' = "Database swap failed"
               /\ UNCHANGED faults
            \/ /\ MayFail
               /\ faults' = faults + 1
               /\ \/ live.exists /\ UNCHANGED <<live, swOps>>
                  \/ live' = NoFile
                     /\ swOps' = swOps \cup (IF live.exists THEN {"remove active"} ELSE {})
               /\ swErr' = "Database swap failed and rollback also failed"
               /\ UNCHANGED backups
       ELSE /\ swErr' = "Database swap failed"
            /\ UNCHANGED <<live, backups, swOps, faults>>
    /\ UNCHANGED <<temp, now, wseq, queryVars, refreshVars, libVars,
                   swSeen, swName, swBacked, swaps>>

\* The process is stopped while swap_databases runs (shutdown does not wait
\* for a running job): the call performs no further step.
swap_databases_abandoned ==
    /\ swapPc \in {"backup", "promote", "prune", "except"}
    /\ swapPc' = "abandoned"
    /\ UNCHANGED <<fsVars, clockVars, queryVars, refreshVars, libVars,
                   swSeen, swName, swBacked, swOps, swErr, swaps>>

SwapNext ==
    \/ swap_databases_verify
    \/ swap_databases_backup
    \/ swap_databases_promote
    \/ swap_databases_prune
    \/ swap_databases_rollback
    \/ swap_databases_abandoned

\* ------------------------------------------------------ RefreshOrchestrator
\* Parameters build declares.
build_params == {"sources_config_path"}

\* Keyword arguments refresh_once passes to build and to swap_databases.
refresh_build_kwargs == {"sources_config_path", "db_path"}
refresh_swap_kwargs == {"temp_path", "active_path", "lock"}

\* Faulty variant of the build's target: the path VectorStore() defaults to.
build_default_db_path == "live"

\* Path refresh_once hands to build as db_path, and path
\* cleanup_stale_databases removes.
refresh_build_db_path == "temp"
cleanup_stale_path == "temp"

FileAt(path) == IF path = "temp" THEN temp ELSE live

\* The file at `path` becomes f; the other path keeps its file.
PutFile(path, f) ==
    IF path = "temp" THEN temp' = f /\ UNCHANGED live
    ELSE live' = f /\ UNCHANGED temp

\* RefreshResult (start_time, end_time and duration_seconds left out); built
\* records what the build of that cycle did.
Failure(msg, b) == [success |-> FALSE, error |-> msg, built |-> b, returned |-> TRUE]
Success(b) == [success |-> TRUE, error |-> "none", built |-> b, returned |-> TRUE]

\* What a build stand-in leaves at db_path: the schema VectorStore.initialize
\* creates, a wrong schema (mock_build_invalid), or a file that fails
\* PRAGMA integrity_check.
BuildOutcomes == {"full", "wrong_table", "corrupt"}

Candidate(outcome, t) ==
    [exists |-> TRUE,
     data |-> t + 1,
     tables |-> IF outcome = "full" THEN FullSchema ELSE {"wrong_table"},
     ok |-> outcome # "corrupt",
     mtime |-> t]

\* Faulty variant of step 1: the refresh takes _db_swap_lock when it starts.
cleanup_holding_lock(r) ==
    /\ refreshPc[r] = "idle"
    /\ refreshes < MaxRefreshes
    /\ lockHolder = NoHolder
    /\ lockHolder' = r
    /\ refreshes' = refreshes + 1
    /\ refreshPc' = [refreshPc EXCEPT ![r] = "build"]
    /\ UNCHANGED <<fsVars, clockVars, vector_store, queryPc, queryErr,
                   refreshResult, built, swapVars, libVars>>

\* refresh_once is entered, by the scheduler's job (one instance at a time,
\* max_instances = 1) or by a one-shot call.  Step 1:
\* DatabaseManager.cleanup_stale_databases removes a file left at the
\* candidate path; a failure of os.remove is logged, not raised.
refresh_once_cleanup(r) ==
    /\ refreshPc[r] = "idle"
    /\ refreshes < MaxRefreshes
    /\ refreshes' = refreshes + 1
    /\ refreshPc' = [refreshPc EXCEPT ![r] = "build"]
    /\ IF FileAt(cleanup_stale_path).exists
       THEN \/ PutFile(cleanup_stale_path, NoFile) /\ UNCHANGED faults
            \/ MayFail /\ faults' = faults + 1 /\ UNCHANGED <<live, temp>>
       ELSE UNCHANGED <<live, temp, faults>>
    /\ UNCHANGED <<backups, now, wseq, queryVars, refreshResult, built, swapVars, libVars>>

\* Step 2: build(sources_config_path=..., db_path=...).  The callee is
\* src.build.build, or the stand-in a test patches in, which accepts db_path
\* and either raises or writes a store there.
refresh_once_build(r) ==
    /\ refreshPc[r] = "build"
    /\ \/ /\ ~CallBinds(refresh_build_kwargs, build_params)
          /\ refreshResult' = Failure("TypeError: build", "nothing")
          /\ refreshPc' = [refreshPc EXCEPT ![r] = "idle"]
          /\ UNCHANGED <<live, temp, wseq, built>>
       \/ /\ refreshResult' = Failure("Build failed", "raised")
          /\ refreshPc' = [refreshPc EXCEPT ![r] = "idle"]
          /\ UNCHANGED <<live, temp, wseq, built>>
       \/ \E outcome \in BuildOutcomes :
             /\ ~FileAt(refresh_build_db_path).exists
             /\ wseq' = wseq + 1
             /\ PutFile(refresh_build_db_path, Candidate(outcome, wseq'))
             /\ built' = [built EXCEPT ![r] = outcome]
             /\ refreshPc' = [refreshPc EXCEPT ![r] = "swap"]
             /\ UNCHANGED refreshResult
    /\ UNCHANGED <<backups, now, faults, queryVars, refreshes, swapVars, libVars>>

\* Faulty variant of step 3: the failed cycle takes the job off the schedule.
swap_failure_unschedules(r) ==
    /\ refreshPc[r] = "swap"
    /\ ~CallBinds(refresh_swap_kwargs, swap_databases_params)
    /\ refreshResult' = Failure("TypeError: swap_databases", built[r])
    /\ built' = [built EXCEPT ![r] = "nothing"]
    /\ refreshPc' = [refreshPc EXCEPT ![r] = "unscheduled"]
    /\ UNCHANGED <<fsVars, clockVars, queryVars, refreshes, swapVars, libVars>>

\* Faulty variant of step 3: after the failed swap call the cycle goes back
\* to the build instead of returning.
swap_failure_retries_build(r) ==
    /\ refreshPc[r] = "swap"
    /\ ~CallBinds(refresh_swap_kwargs, swap_databases_params)
    /\ refreshResult' = Failure("TypeError: swap_databases", built[r])
    /\ built' = [built EXCEPT ![r] = "nothing"]
    /\ refreshPc' = [refreshPc EXCEPT ![r] = "build"]
    /\ UNCHANGED <<fsVars, clockVars, queryVars, refreshes, swapVars, libVars>>

\* Step 3: swap_databases(temp_path=..., active_path=..., lock=...).
\* swap_databases declares no lock parameter, so the call raises TypeError,
\* which refresh_once turns into a failed RefreshResult.
refresh_once_swap(r) ==
    /\ refreshPc[r] = "swap"
    /\ ~CallBinds(refresh_swap_kwargs, swap_databases_params)
    /\ refreshResult' = Failure("TypeError: swap_databases", built[r])
    /\ built' = [built EXCEPT ![r] = "nothing"]
    /\ refreshPc' = [refreshPc EXCEPT ![r] = "idle"]
    /\ UNCHANGED <<fsVars, clockVars, queryVars, refreshes, swapVars, libVars>>

RefreshNext(r) ==
    \/ refresh_once_cleanup(r)
    \/ refresh_once_build(r)
    \/ refresh_once_swap(r)

\* ------------------------------------------------------------ _get_services
\* VectorStore.initialize on the live path: sqlite3.connect creates the file
\* if there is none, _create_tables adds the tables that are missing.
initialize(f, t) ==
    IF ~f.exists THEN [EmptyDb(t) EXCEPT !.tables = FullSchema]
    ELSE IF FullSchema \subseteq f.tables THEN f
    ELSE [f EXCEPT !.tables = f.tables \cup FullSchema, !.mtime = t]

\* VectorStore.health_check: SELECT COUNT(*) FROM chunks succeeds.
health_check(f) == f.exists /\ f.ok /\ "chunks" \in f.tables

\* A tool call (query_docs, get_chunk) reaches _get_services and waits for
\* _db_swap_lock.
_get_services_call(q) ==
    /\ queryPc[q] \in {"idle", "returned", "raised"}
    /\ queryPc' = [queryPc EXCEPT ![q] = "waiting"]
    /\ queryErr' = [queryErr EXCEPT ![q] = "none"]
    /\ UNCHANGED <<fsVars, clockVars, lockHolder, vector_store, refreshVars, swapVars, libVars>>

\* with _db_swap_lock: entered once the lock is free.  With _vector_store
\* set nothing is initialised: the block ends and the services are returned.
_get_services_acquire(q) ==
    /\ queryPc[q] = "waiting"
    /\ lockHolder = NoHolder
    /\ IF vector_store
       THEN queryPc' = [queryPc EXCEPT ![q] = "returned"] /\ UNCHANGED lockHolder
       ELSE queryPc' = [queryPc EXCEPT ![q] = "init"] /\ lockHolder' = q
    /\ UNCHANGED <<fsVars, clockVars, vector_store, queryErr, refreshVars, swapVars, libVars>>

\* Faulty variant of the initialisation: an exception leaves _db_swap_lock held.
initialize_error_keeps_lock(q) ==
    /\ queryPc[q] = "init"
    /\ vector_store' = TRUE
    /\ \/ /\ live.exists => live.ok
          /\ live' = initialize(live, wseq + 1)
          /\ wseq' = IF live' = live THEN wseq ELSE wseq + 1
          /\ queryPc' = [queryPc EXCEPT ![q] = "health"]
          /\ UNCHANGED <<lockHolder, queryErr, faults>>
       \/ /\ (live.exists /\ ~live.ok) \/ MayFail
          /\ faults' = IF live.exists /\ ~live.ok THEN faults ELSE faults + 1
          /\ queryPc' = [queryPc EXCEPT ![q] = "raised"]
          /\ queryErr' = [queryErr EXCEPT ![q] = "initialize failed"]
          /\ UNCHANGED <<live, wseq, lockHolder>>
    /\ UNCHANGED <<temp, backups, now, refreshVars, swapVars, libVars>>

\* _vector_store = VectorStore(config.db_path); await _vector_store.initialize().
\* An exception leaves the with block, which releases the lock.
_get_services_initialize(q) ==
    /\ queryPc[q] = "init"
    /\ vector_store' = TRUE
    /\ \/ /\ live.exists => live.ok
          /\ live' = initialize(live, wseq + 1)
          /\ wseq' = IF live' = live THEN wseq ELSE wseq + 1
          /\ queryPc' = [queryPc EXCEPT ![q] = "health"]
          /\ UNCHANGED <<lockHolder, queryErr, faults>>
       \/ /\ (live.exists /\ ~live.ok) \/ MayFail
          /\ faults' = IF live.exists /\ ~live.ok THEN faults ELSE faults + 1
          /\ lockHolder' = NoHolder
          /\ queryPc' = [queryPc EXCEPT ![q] = "raised"]
          /\ queryErr' = [queryErr EXCEPT ![q] = "initialize failed"]
          /\ UNCHANGED <<live, wseq>>
    /\ UNCHANGED <<temp, backups, now, refreshVars, swapVars, libVars>>

\* if not await _vector_store.health_check(): raise McpError(-32001);
\* otherwise the with block ends and the services are returned.
_get_services_health_check(q) ==
    /\ queryPc[q] = "health"
    /\ live' = IF live.exists THEN live ELSE EmptyDb(wseq + 1)
    /\ wseq' = IF live.exists THEN wseq ELSE wseq + 1
    /\ lockHolder' = NoHolder
    /\ IF health_check(live)
       THEN /\ queryPc' = [queryPc EXCEPT ![q] = "returned"]
            /\ UNCHANGED queryErr
       ELSE /\ queryPc' = [queryPc EXCEPT ![q] = "raised"]
            /\ queryErr' = [queryErr EXCEPT ![q] = "not initialized"]
    /\ UNCHANGED <<temp, backups, now, faults, vector_store, refreshVars, swapVars, libVars>>

\* Faulty variant of the storage handle: a connection opened before the swap
\* is kept, so it follows the file that was renamed to the backup name.
cached_connection ==
    IF swapPc = "returned" /\ swBacked.exists THEN swBacked
    ELSE IF live.exists THEN live ELSE EmptyDb(wseq + 1)

\* VectorStore._get_connection for a file database: the file a new connection
\* to db_path opens; connecting creates an empty database if no file is there.
_get_connection == IF live.exists THEN live ELSE EmptyDb(wseq + 1)

\* The tool then reads the store (search, get_chunk) through a connection of
\* its own (VectorStore._ensure_connection), without the lock.
query_read(q) ==
    /\ queryPc[q] = "returned"
    /\ live' = _get_connection
    /\ wseq' = IF live.exists THEN wseq ELSE wseq + 1
    /\ UNCHANGED <<temp, backups, now, faults, queryVars, refreshVars, swapVars, libVars>>

QueryNext(q) ==
    \/ _get_services_call(q)
    \/ _get_services_acquire(q)
    \/ _get_services_initialize(q)
    \/ _get_services_health_check(q)
    \/ query_read(q)

Next ==
    \/ SwapNext
    \/ \E r \in Refreshers : RefreshNext(r)
    \/ \E q \in Queries : QueryNext(q)

Spec == Init /\ [][Next]_vars

\* The server after one refresh_once has built a candidate and returned: the
\* candidate is still at the candidate path.
FairInit ==
    /\ live \in {NoFile, InitialStore}
    /\ temp = Candidate("full", 1)
    /\ backups = EmptyBackups
    /\ now = 0
    /\ wseq = 1
    /\ faults = 0
    /\ lockHolder = NoHolder
    /\ vector_store = FALSE
    /\ queryPc = [q \in Queries |-> "idle"]
    /\ queryErr = [q \in Queries |-> "none"]
    /\ refreshPc = [r \in Refreshers |-> "idle"]
    /\ refreshResult = Failure("TypeError: swap_databases", "full")
    /\ built = [r \in Refreshers |-> "nothing"]
    /\ refreshes = 1
    /\ swapPc = "idle"
    /\ swSeen = NoFile
    /\ swName = NoName
    /\ swBacked = NoFile
    /\ swOps = {}
    /\ swErr = "none"
    /\ swaps = 0
    /\ store = NoStore
    /\ chunking = NoChunking
    /\ fusion = NoFusion
    /\ listing = NoListing
    /\ tool = NoTool
    /\ ingest = NoIngest
    /\ lifecycle = NoLifecycle
    /\ fetch = NoFetch

\* Queries and swaps from there on.  The steps of refresh_once read and write
\* neither _db_swap_lock nor the live path, so they are left out.
FairNext ==
    \/ SwapNext
    \/ \E q \in Queries : QueryNext(q)

\* A tool call that can take its next step eventually takes it: the event
\* loop, or the thread that serves the call, keeps running.
FairSpec ==
    FairInit /\ [][FairNext]_vars /\ \A q \in Queries : WF_vars(QueryNext(q))

\* Direct swap_databases calls on candidates of every schema: a candidate
\* file holding any subset of the tables _create_tables creates, passing or
\* failing PRAGMA integrity_check, beside a live store or none.
SchemaInit ==
    /\ live \in {NoFile, InitialStore}
    /\ \E tables \in SUBSET FullSchema, ok \in BOOLEAN :
           temp = [exists |-> TRUE, data |-> 1, tables |-> tables, ok |-> ok,
                   mtime |-> 1]
    /\ backups = EmptyBackups
    /\ now = 0
    /\ wseq = 1
    /\ faults = 0
    /\ lockHolder = NoHolder
    /\ vector_store = FALSE
    /\ queryPc = [q \in Queries |-> "idle"]
    /\ queryErr = [q \in Queries |-> "none"]
    /\ refreshPc = [r \in Refreshers |-> "idle"]
    /\ refreshResult = NoResult
    /\ built = [r \in Refreshers |-> "nothing"]
    /\ refreshes = 0
    /\ swapPc = "idle"
    /\ swSeen = NoFile
    /\ swName = NoName
    /\ swBacked = NoFile
    /\ swOps = {}
    /\ swErr = "none"
    /\ swaps = 0
    /\ store = NoStore
    /\ chunking = NoChunking
    /\ fusion = NoFusion
    /\ listing = NoListing
    /\ tool = NoTool
    /\ ingest = NoIngest
    /\ lifecycle = NoLifecycle
    /\ fetch = NoFetch

SchemaSpec == SchemaInit /\ [][SwapNext]_vars

\* The scheduled job and the queries alone.  The interval trigger of the job
\* added by configure_scheduler_sync fires again and again while the job is
\* registered, and the scheduler's thread pool runs the tick: the steps of
\* the scheduled refresh are taken whenever they stay possible.
TickNext == RefreshNext("scheduled") \/ \E q \in Queries : QueryNext(q)

TickSpec == Init /\ [][TickNext]_vars /\ WF_vars(RefreshNext("scheduled"))

\* ------------------------------------------------------------- VectorStore
MaxInserts == 3      \* calls of insert_chunk
MaxVersion == 2      \* contents a chunk id is inserted with
MaxCloses == 2       \* calls of VectorStore.close

embedding_dimension == 384

\* Lengths of the embeddings handed to insert_chunk.
EmbeddingLengths == {embedding_dimension - 1, embedding_dimension}

\* The server's variables while a library component is exercised on its own.
ProtocolIdle ==
    /\ live = NoFile
    /\ temp = NoFile
    /\ backups = EmptyBackups
    /\ now = 0
    /\ wseq = 0
    /\ faults = 0
    /\ lockHolder = NoHolder
    /\ vector_store = FALSE
    /\ queryPc = [q \in Queries |-> "idle"]
    /\ queryErr = [q \in Queries |-> "none"]
    /\ refreshPc = [r \in Refreshers |-> "idle"]
    /\ refreshResult = NoResult
    /\ built = [r \in Refreshers |-> "nothing"]
    /\ refreshes = 0
    /\ swapPc = "idle"
    /\ swSeen = NoFile
    /\ swName = NoName
    /\ swBacked = NoFile
    /\ swOps = {}
    /\ swErr = "none"
    /\ swaps = 0

protocolVars == <<fsVars, clockVars, queryVars, refreshVars, swapVars>>

\* One statement of insert_chunk on table `name`.  INSERT OR REPLACE replaces
\* the row of the id in chunks, vec_chunks and chunk_embeddings_metadata
\* (chunk id is their primary key); chunks_fts is an FTS5 table, which has no
\* key, so the statement adds a row.
InsertOrReplace(t, name, id, v) ==
    IF name = "chunks_fts"
    THEN [t EXCEPT !.chunks_fts = Append(@, <<id, v>>)]
    ELSE [t EXCEPT ![name][id] = v]

\* The tables as the connection sees them after the first k statements.
RECURSIVE Statements(_, _, _, _)
Statements(t, k, id, v) ==
    IF k = 0 THEN t
    ELSE InsertOrReplace(Statements(t, k - 1, id, v), InsertWrites[k], id, v)

\* What later reads of the store find after insert_chunk ran with statement
\* failAt raising (0: none raises).  A file store's connection is opened for
\* the call and closed in the finally clause, which discards what was not
\* committed; an in-memory store's one connection stays open, and what the
\* statements before the failing one wrote stays in it.
TablesAfterInsert(kind, t, id, v, len, failAt) ==
    IF len # embedding_dimension THEN t
    ELSE IF failAt = 0 THEN Statements(t, Len(InsertWrites), id, v)
    ELSE IF kind = "file" THEN t
    ELSE Statements(t, failAt - 1, id, v)

\* VectorStore.get_chunk: the version of the row of chunks (0: None).
get_chunk(t, id) == t.chunks[id]

\* VectorStore.keyword_search for a term every version of chunk id contains:
\* one result per row of chunks_fts that joins a row of chunks.
keyword_search(t, id) ==
    LET rows == SelectSeq(t.chunks_fts, LAMBDA r : r[1] = id /\ t.chunks[id] # 0)
    IN [i \in 1..Len(rows) |-> t.chunks[id]]

\* Faulty variant of _ensure_connection: an in-memory store connects anew for
\* every operation, as a file store does.
connection_per_operation(s) ==
    [s EXCEPT !.gen = IF s.kind = "memory" THEN @ + 1 ELSE @,
              !._memory_conn = IF s.kind = "memory" THEN s.gen + 1 ELSE @,
              !.open = @ + 1,
              !.used = IF s.kind = "memory" THEN s.gen + 1 ELSE 0,
              !.schema = IF s.kind = "memory" THEN FALSE ELSE @,
              !.tables = IF s.kind = "memory" THEN EmptyTables ELSE @]

\* conn, should_close = self._ensure_connection(None), with _get_connection:
\* an in-memory store connects once, which makes a new empty database, and
\* hands out that connection from then on; a file store connects anew.
_ensure_connection(s) ==
    IF s.kind = "memory"
    THEN IF s._memory_conn = 0
         THEN [s EXCEPT !.gen = @ + 1, !._memory_conn = s.gen + 1,
                        !.open = @ + 1, !.used = s.gen + 1,
                        !.schema = FALSE, !.tables = EmptyTables]
         ELSE [s EXCEPT !.used = s._memory_conn]
    ELSE [s EXCEPT !.open = @ + 1, !.used = 0]

\* finally: if should_close: conn.close(), where should_close is
\* db_path != ":memory:".
finally_close(s) == IF s.kind # "memory" THEN [s EXCEPT !.open = @ - 1] ELSE s

\* VectorStore.insert_chunk(chunk, embedding) without a caller's connection.
\* On a database without the tables the first statement raises.
insert_chunk ==
    /\ store.kind \in {"file", "memory"}
    /\ store.inserts < MaxInserts
    /\ \E id \in ChunkIds, v \in 1..MaxVersion, len \in EmbeddingLengths,
          failAt \in 0..Len(InsertWrites) :
          LET s == _ensure_connection(store)
          IN store' = finally_close(
                        [s EXCEPT
                           !.inserts = @ + 1,
                           !.id = id,
                           !.version = v,
                           !.before = s.tables,
                           !.tables = TablesAfterInsert(s.kind, s.tables, id, v, len,
                                          IF s.schema THEN failAt ELSE 1),
                           !.result = IF len = embedding_dimension /\ failAt = 0
                                         /\ s.schema
                                      THEN "ok" ELSE "raised"])
    /\ UNCHANGED <<protocolVars, chunking, fusion, listing, tool, ingest, lifecycle, fetch>>

\* VectorStore.initialize(): _create_tables on a connection from
\* _get_connection, closed afterwards unless the store is in memory.
\* CREATE ... IF NOT EXISTS keeps the rows of tables that exist.
VectorStore_initialize ==
    /\ store.kind \in {"file", "memory"}
    /\ LET s == _ensure_connection(store)
       IN store' = finally_close([s EXCEPT !.schema = TRUE, !.before = s.tables,
                                           !.result = "none"])
    /\ UNCHANGED <<protocolVars, chunking, fusion, listing, tool, ingest, lifecycle, fetch>>

\* VectorStore.close(): closes and forgets the persistent connection, and
\* with it the in-memory database; nothing to do for a file store.
VectorStore_close ==
    /\ store.kind \in {"file", "memory"}
    /\ store.closes < MaxCloses
    /\ store' = IF store._memory_conn # 0
                THEN [store EXCEPT !._memory_conn = 0, !.open = @ - 1,
                                   !.schema = FALSE, !.tables = EmptyTables,
                                   !.before = store.tables, !.result = "none",
                                   !.closes = @ + 1]
                ELSE [store EXCEPT !.before = store.tables, !.result = "none",
                                   !.closes = @ + 1]
    /\ UNCHANGED <<protocolVars, chunking, fusion, listing, tool, ingest, lifecycle, fetch>>

StoreInit ==
    /\ ProtocolIdle
    /\ store \in {NewStore("file"), NewStore("memory")}
    /\ chunking = NoChunking
    /\ fusion = NoFusion
    /\ listing = NoListing
    /\ tool = NoTool
    /\ ingest = NoIngest
    /\ lifecycle = NoLifecycle
    /\ fetch = NoFetch

StoreNext == insert_chunk \/ VectorStore_initialize \/ VectorStore_close

StoreSpec == StoreInit /\ [][StoreNext]_vars

\* ------------------------------------------------------------------ Chunker
MaxSections == 3     \* sections of a parsed document

chunk_size_tokens == 512
chunk_overlap_tokens == 100
min_chunk_size_tokens == 100

\* Token counts of the flat texts chunked: empty, one token, around the chunk
\* size, and around the lengths at which a split needs one chunk more.
TextSizes ==
    {0, 1, chunk_size_tokens - 1, chunk_size_tokens, chunk_size_tokens + 1,
     2 * chunk_size_tokens - chunk_overlap_tokens,
     2 * chunk_size_tokens - chunk_overlap_tokens + 1,
     3 * chunk_size_tokens - 2 * chunk_overlap_tokens,
     3 * chunk_size_tokens - 2 * chunk_overlap_tokens + 1}

\* Token counts of the section contents chunked: empty, below and at the
\* minimum, just under and at the chunk size, over it, and over two chunks.
SectionSizes ==
    {0, min_chunk_size_tokens \div 2, min_chunk_size_tokens,
     chunk_size_tokens - 12, chunk_size_tokens, chunk_size_tokens + 88,
     2 * chunk_size_tokens}

\* Tokens one "\n\n" joint adds to the token count of the joined parts.
JointTokens == {0, 1}

Min(a, b) == IF a <= b THEN a ELSE b

RECURSIVE SumSeq(_)
SumSeq(q) == IF q = <<>> THEN 0 ELSE q[1] + SumSeq(Tail(q))

\* DocumentationChunk(content=tokens[start:end], chunk_position, token_count);
\* via tells which statement constructed it, sections which part of which
\* section its content holds (see content_sections).
DocumentationChunk(start, end, chunk_position, token_count, via) ==
    [start |-> start, end |-> end, chunk_position |-> chunk_position,
     token_count |-> token_count, via |-> via, sections |-> <<>>]

\* The field constraints of DocumentationChunk: content min_length=1 (a text
\* is empty exactly when it has no tokens), chunk_position ge=0, token_count gt=0.
Validates(c) == c.end > c.start /\ c.chunk_position >= 0 /\ c.token_count > 0

\* A split that advances by the whole chunk, without overlap.
next_start_without_overlap(end_token) == end_token

\* start_token = end_token - self.chunk_overlap_tokens
next_start_token(end_token) == end_token - chunk_overlap_tokens

\* The while loop of _chunk_section over total_tokens tokens, chunks holding
\* the chunks built so far.
RECURSIVE SplitLoop(_, _, _)
SplitLoop(start_token, total_tokens, chunks) ==
    LET end_token == Min(start_token + chunk_size_tokens, total_tokens)
        appended == Append(chunks,
                        DocumentationChunk(start_token, end_token, Len(chunks),
                                           end_token - start_token, "split"))
    IN  IF ~(start_token < total_tokens)
        THEN chunks
        ELSE IF end_token = total_tokens
             THEN appended
             ELSE SplitLoop(next_start_token(end_token), total_tokens, appended)

\* A _chunk_section that keeps a text whole up to the 20% tolerance.
chunk_section_with_tolerance(total_tokens) ==
    IF 5 * total_tokens <= 6 * chunk_size_tokens
    THEN <<DocumentationChunk(0, total_tokens, 0, total_tokens, "whole")>>
    ELSE SplitLoop(0, total_tokens, <<>>)

\* Chunker._chunk_section on a content of total_tokens tokens.
_chunk_section(total_tokens) ==
    IF total_tokens <= chunk_size_tokens
    THEN <<DocumentationChunk(0, total_tokens, 0, total_tokens, "whole")>>
    ELSE SplitLoop(0, total_tokens, <<>>)

\* count_tokens("\n\n".join(parts)) for parts of the given token counts.
count_tokens_joined(parts, joint) ==
    SumSeq(parts) + (IF parts = <<>> THEN 0 ELSE joint * (Len(parts) - 1))

\* A _create_aggregated_chunk that never splits the joined content.
aggregated_chunk_unsplit(parts, joint) ==
    LET combined_tokens == count_tokens_joined(parts, joint)
    IN  <<DocumentationChunk(0, combined_tokens, 0, combined_tokens, "whole")>>

\* Chunker._create_aggregated_chunk on the accumulated section contents.
_create_aggregated_chunk(parts, joint) ==
    LET combined_tokens == count_tokens_joined(parts, joint)
    IN  IF combined_tokens <= chunk_size_tokens
        THEN <<DocumentationChunk(0, combined_tokens, 0, combined_tokens, "whole")>>
        ELSE _chunk_section(combined_tokens)

\* What the contents of chunks cut from "\n\n".join(content_parts) hold: the
\* parts are the sections first, first + 1, ... of the document, part k lies
\* at the tokens after the parts and joints before it, and a chunk holding
\* tokens [start, end) of the joined text holds tokens [from, to) of each
\* section it reaches.
content_sections(chunks, parts, joint, first) ==
    LET offset(k) == SumSeq(SubSeq(parts, 1, k - 1)) + joint * (k - 1)
        slice(c, k) ==
            [index |-> first + k - 1,
             from |-> (IF c.start > offset(k) THEN c.start ELSE offset(k)) - offset(k),
             to |-> Min(c.end, offset(k) + parts[k]) - offset(k)]
        held(c) == SelectSeq([k \in 1..Len(parts) |-> slice(c, k)],
                             LAMBDA part : part.from < part.to)
    IN  [n \in 1..Len(chunks) |-> [chunks[n] EXCEPT !.sections = held(chunks[n])]]

\* Statements after the section loop that emit nothing for the trailing buffer.
trailing_buffer_dropped(chunks, parts, joint, first) == chunks

\* x <= self.chunk_size_tokens * 1.2
WithinTolerance(x) == 5 * x <= 6 * chunk_size_tokens

\* The statements after the section loop: the trailing buffer is merged into
\* the last chunk, or emitted by _create_aggregated_chunk.
\* The buffer holds the sections from number first on.
FinalChunks(chunks, parts, joint, first) ==
    LET current_tokens == SumSeq(parts)
        last_chunk == chunks[Len(chunks)]
        combined_tokens == last_chunk.token_count + current_tokens
        buffer == content_sections(_create_aggregated_chunk(parts, joint),
                                   parts, joint, first)
        whole == content_sections(
                     <<DocumentationChunk(0, count_tokens_joined(parts, joint), 0, 0,
                                          "whole")>>, parts, joint, first)
    IN  IF parts = <<>>
        THEN chunks
        ELSE IF chunks # <<>> /\ current_tokens < min_chunk_size_tokens
             THEN IF WithinTolerance(combined_tokens)
                  THEN Append(SubSeq(chunks, 1, Len(chunks) - 1),
                              [DocumentationChunk(last_chunk.start,
                                  last_chunk.end + joint + count_tokens_joined(parts, joint),
                                  last_chunk.chunk_position, combined_tokens, "merged")
                               EXCEPT !.sections = last_chunk.sections \o whole[1].sections])
                  ELSE chunks \o buffer
             ELSE chunks \o buffer

\* The section loop of _chunk_with_section_aggregation from section i on, with
\* the chunks emitted and the contents accumulated so far.
RECURSIVE SectionLoop(_, _, _, _, _)
SectionLoop(sections, i, chunks, parts, joint) ==
    IF i > Len(sections)
    THEN FinalChunks(chunks, parts, joint, i - Len(parts))
    ELSE LET section_tokens == sections[i]
             current_tokens == SumSeq(parts)
             is_last_section == i = Len(sections)
             should_finalize == current_tokens >= min_chunk_size_tokens
         IN  IF current_tokens > 0
                  /\ current_tokens + section_tokens > chunk_size_tokens
             THEN IF /\ ~should_finalize
                     /\ ~is_last_section
                     /\ WithinTolerance(current_tokens + section_tokens)
                  THEN SectionLoop(sections, i + 1, chunks,
                                   Append(parts, section_tokens), joint)
                  ELSE SectionLoop(sections, i + 1,
                                   chunks \o content_sections(
                                                 _create_aggregated_chunk(parts, joint),
                                                 parts, joint, i - Len(parts)),
                                   <<section_tokens>>, joint)
             ELSE SectionLoop(sections, i + 1, chunks,
                              Append(parts, section_tokens), joint)

\* Chunker._chunk_with_section_aggregation.
_chunk_with_section_aggregation(sections, joint) ==
    SectionLoop(sections, 1, <<>>, <<>>, joint)

\* A chunk() that returns the chunks with the positions they were built with.
positions_as_built(chunks) == chunks

\* for i, chunk in enumerate(chunks): chunk.chunk_position = i
ReassignPositions(chunks) ==
    [i \in 1..Len(chunks) |-> [chunks[i] EXCEPT !.chunk_position = i - 1]]

\* The chunks chunk() builds for a document, before positions are reassigned.
BuiltChunks(doc) ==
    IF doc.sections # <<>>
    THEN _chunk_with_section_aggregation(doc.sections, doc.joint)
    ELSE _chunk_section(doc.text)

\* Chunker.chunk: the constructor of DocumentationChunk raises a
\* ValidationError for a chunk that breaks a field constraint; otherwise the
\* chunks are returned with their positions reassigned.
chunk ==
    /\ ~chunking.done
    /\ LET chunks == BuiltChunks(chunking)
       IN  chunking' =
               IF \E i \in 1..Len(chunks) : ~Validates(chunks[i])
               THEN [chunking EXCEPT !.done = TRUE, !.raised = TRUE]
               ELSE [chunking EXCEPT !.done = TRUE,
                                     !.out = ReassignPositions(chunks)]
    /\ UNCHANGED <<protocolVars, store, fusion, listing, tool, ingest, lifecycle, fetch>>

\* Sequences of 1..MaxSections section contents.
SectionLists ==
    UNION {[1..n -> SectionSizes] : n \in 1..MaxSections}

ChunkInit ==
    /\ ProtocolIdle
    /\ store = NoStore
    /\ fusion = NoFusion
    /\ listing = NoListing
    /\ tool = NoTool
    /\ ingest = NoIngest
    /\ lifecycle = NoLifecycle
    /\ fetch = NoFetch
    /\ \/ \E n \in TextSizes : chunking = Document(n, <<>>, 0)
       \/ \E q \in SectionLists, j \in JointTokens : chunking = Document(0, q, j)

ChunkNext == chunk

ChunkSpec == ChunkInit /\ [][ChunkNext]_vars

\* ------------------------------------------- Chunker: the loop of a split
MaxChunks == 32      \* chunks one _chunk_section call appends

\* A configuration that allows an overlap as large as the chunk size.
configs_without_bounds == [size : {256}, overlap : {0, 256}]

\* chunk_size_tokens (ge=256, le=1024) and chunk_overlap_tokens (ge=0, le=200)
\* a Chunker can be constructed with: the bounds and the defaults.
ChunkingConfigs == [size : {256, chunk_size_tokens, 1024},
                    overlap : {0, chunk_overlap_tokens, 200}]

\* One step of _chunk_section on a content of total_tokens tokens: the early
\* return for a content within the chunk size, or one pass of the while loop
\* (chunks counts the chunks appended so far).
_chunk_section_step ==
    /\ ~chunking.done
    /\ chunking.chunks < MaxChunks
    /\ LET c == chunking
           end_token == Min(c.start_token + c.size, c.total_tokens)
       IN  chunking' =
               IF c.chunks = 0 /\ c.total_tokens <= c.size
               THEN [c EXCEPT !.chunks = 1, !.done = TRUE]
               ELSE IF ~(c.start_token < c.total_tokens)
               THEN [c EXCEPT !.done = TRUE]
               ELSE IF end_token = c.total_tokens
               THEN [c EXCEPT !.chunks = @ + 1, !.done = TRUE]
               ELSE [c EXCEPT !.chunks = @ + 1,
                              !.start_token = end_token - c.overlap]
    /\ UNCHANGED <<protocolVars, store, fusion, listing, tool, ingest, lifecycle, fetch>>

\* _chunk_section is entered with a content that is empty, of one token, at
\* and just over the smallest and the largest chunk size, or longer.
SplitInit ==
    /\ ProtocolIdle
    /\ store = NoStore
    /\ fusion = NoFusion
    /\ listing = NoListing
    /\ tool = NoTool
    /\ ingest = NoIngest
    /\ lifecycle = NoLifecycle
    /\ fetch = NoFetch
    /\ \E cfg \in ChunkingConfigs, total_tokens \in {0, 1, 256, 257, 1024, 1025, 1300} :
           chunking = [size |-> cfg.size, overlap |-> cfg.overlap,
                       total_tokens |-> total_tokens, start_token |-> 0,
                       chunks |-> 0, done |-> FALSE]

\* The call runs until it returns.
SplitSpec == SplitInit /\ [][_chunk_section_step]_vars /\ WF_vars(_chunk_section_step)

\* ------------------------------------------------------------ SearchService
MaxLimit == 2        \* limit of a hybrid query

rrf_k == 60

\* Ids of the chunks a hybrid query finds.
FoundIds == {"a", "b", "c"}

\* Scores are exact fractions <<numerator, denominator>>.
Zero == <<0, 1>>
One == <<1, 1>>
Plus(x, y) == <<x[1] * y[2] + y[1] * x[2], x[2] * y[2]>>
Less(x, y) == x[1] * y[2] < y[1] * x[2]
Same(x, y) == x[1] * y[2] = y[1] * x[2]

\* 1 / (k + rank)
Reciprocal(rank) == <<1, rrf_k + rank>>

\* A fusion in which a later contribution replaces the earlier one.
contribution_replaces(score, rank) == Reciprocal(rank)

\* rrf_scores.get(chunk_id, 0) + 1 / (k + rank)
Contribution(score, rank) == Plus(score, Reciprocal(rank))

\* Position of id in a result list (0: not in it); enumerate(.., start=1).
RankIn(list, id) ==
    IF \E i \in 1..Len(list) : list[i] = id
    THEN CHOOSE i \in 1..Len(list) : list[i] = id
    ELSE 0

\* rrf_scores, chunk_map and the insertion order of rrf_scores before any
\* result is added.
NoScores ==
    [rrf_scores |-> [x \in {} |-> Zero], chunk_map |-> [x \in {} |-> ""],
     items |-> <<>>]

\* One of the two loops of _reciprocal_rank_fusion over a result list, from
\* the given rank on; label is the match type the loop gives a new chunk.
RECURSIVE AddResults(_, _, _, _)
AddResults(acc, list, rank, label) ==
    IF rank > Len(list)
    THEN acc
    ELSE LET chunk_id == list[rank]
             scored == chunk_id \in DOMAIN acc.rrf_scores
             mapped == chunk_id \in DOMAIN acc.chunk_map
             score == Contribution(IF scored THEN acc.rrf_scores[chunk_id] ELSE Zero,
                                   rank)
             match_type == IF ~mapped THEN label
                           ELSE IF label = "keyword" THEN "hybrid"
                           ELSE acc.chunk_map[chunk_id]
         IN  AddResults(
                 [rrf_scores |->
                      [x \in DOMAIN acc.rrf_scores \cup {chunk_id} |->
                           IF x = chunk_id THEN score ELSE acc.rrf_scores[x]],
                  chunk_map |->
                      [x \in DOMAIN acc.chunk_map \cup {chunk_id} |->
                           IF x = chunk_id THEN match_type ELSE acc.chunk_map[x]],
                  items |-> IF scored THEN acc.items ELSE Append(acc.items, chunk_id)],
                 list, rank + 1, label)

\* A fusion that returns the chunks in the order they were first met.
items_as_inserted(items, rrf_scores) == items

\* sorted(rrf_scores.items(), key=score, reverse=True): a stable sort, so
\* chunks of equal score keep their insertion order.
RECURSIVE SortedByScore(_, _)
SortedByScore(items, rrf_scores) ==
    IF items = <<>>
    THEN <<>>
    ELSE LET first == CHOOSE i \in 1..Len(items) :
                 /\ \A j \in 1..Len(items) :
                        ~Less(rrf_scores[items[i]], rrf_scores[items[j]])
                 /\ \A j \in 1..(i - 1) :
                        Less(rrf_scores[items[j]], rrf_scores[items[i]])
         IN  <<items[first]>>
                 \o SortedByScore(SubSeq(items, 1, first - 1)
                                      \o SubSeq(items, first + 1, Len(items)),
                                  rrf_scores)

\* SearchService._reciprocal_rank_fusion: the SearchResult list it returns.
_reciprocal_rank_fusion(semantic_results, keyword_results, limit) ==
    LET acc == AddResults(AddResults(NoScores, semantic_results, 1, "semantic"),
                          keyword_results, 1, "keyword")
        sorted == SortedByScore(acc.items, acc.rrf_scores)
        sorted_chunks == SubSeq(sorted, 1, Min(limit, Len(sorted)))
    IN  [rank \in 1..Len(sorted_chunks) |->
             LET rrf_score == acc.rrf_scores[sorted_chunks[rank]]
             IN  [chunk |-> sorted_chunks[rank],
                  score |-> IF Less(One, rrf_score) THEN One ELSE rrf_score,
                  rank |-> rank,
                  match_type |-> acc.chunk_map[sorted_chunks[rank]]]]

\* The hybrid branch of SearchService.query from the two searches' results on.
query_hybrid ==
    /\ ~fusion.done
    /\ LET search_results == _reciprocal_rank_fusion(fusion.semantic_results,
                                                     fusion.keyword_results,
                                                     fusion.limit)
       IN  fusion' = [fusion EXCEPT
               !.done = TRUE,
               !.results = IF Less(Zero, fusion.min_score)
                           THEN SelectSeq(search_results,
                                          LAMBDA r : ~Less(r.score, fusion.min_score))
                           ELSE search_results]
    /\ UNCHANGED <<protocolVars, store, chunking, listing, tool, ingest, lifecycle, fetch>>

\* Result lists of at most n chunks: each search returns a chunk once.
ResultLists(n) ==
    {q \in UNION {[1..m -> FoundIds] : m \in 0..Min(n, Cardinality(FoundIds))} :
         \A i, j \in DOMAIN q : q[i] = q[j] => i = j}

\* min_score of a hybrid query: unset, and thresholds between the scores of
\* a chunk found once and of chunks found twice.
HybridMinScores == {Zero, Reciprocal(1), <<1, 31>>}

FusionInit ==
    /\ ProtocolIdle
    /\ store = NoStore
    /\ chunking = NoChunking
    /\ listing = NoListing
    /\ tool = NoTool
    /\ ingest = NoIngest
    /\ lifecycle = NoLifecycle
    /\ fetch = NoFetch
    /\ \E limit \in 1..MaxLimit, min_score \in HybridMinScores :
           \E semantic_results, keyword_results \in ResultLists(2 * limit) :
               fusion = Fusion(semantic_results, keyword_results, limit, min_score)

FusionNext == query_hybrid

FusionSpec == FusionInit /\ [][FusionNext]_vars

\* ------------------------------------- SearchService: semantic and keyword
MaxRaw == 3          \* rows a search returns

\* Cosine distances of vec_chunks rows, as fractions (range 0..2).
Distances == {<<0, 1>>, <<1, 2>>, <<1, 1>>, <<2, 1>>}

\* Ranks (bm25) of chunks_fts rows: negative, lower is a better match.
Bm25Ranks == {-4, -1, 0}

\* similarity = 1.0 - (distance / 2.0)
Similarity(distance) == <<2 * distance[2] - distance[1], 2 * distance[2]>>

\* score = 1.0 / (1.0 + abs(rank))
KeywordScore(rank) == <<1, 1 + (IF rank < 0 THEN -rank ELSE rank)>>

\* VectorStore.search: rows ORDER BY v.distance, each with its similarity.
SemanticRaw ==
    {[i \in DOMAIN q |-> Similarity(q[i])] :
         q \in {d \in UNION {[1..m -> Distances] : m \in 0..MaxRaw} :
                    \A i, j \in DOMAIN d : i < j => ~Less(d[j], d[i])}}

\* VectorStore.keyword_search: rows ORDER BY rank, each with its score.
KeywordRaw ==
    {[i \in DOMAIN q |-> KeywordScore(q[i])] :
         q \in {r \in UNION {[1..m -> Bm25Ranks] : m \in 0..MaxRaw} :
                    \A i, j \in DOMAIN r : i < j => r[i] <= r[j]}}

\* for rank, (chunk, score) in enumerate(raw_results, start=1): a row below
\* min_score is skipped, the others become results with the row's rank.
format_results(raw_results, min_score, match_type) ==
    SelectSeq([rank \in DOMAIN raw_results |->
                   [score |-> raw_results[rank], rank |-> rank,
                    match_type |-> match_type]],
              LAMBDA result : ~(Less(Zero, min_score) /\ Less(result.score, min_score)))

\* SearchService.query, QueryType.SEMANTIC branch.
query_semantic ==
    /\ ~listing.done
    /\ listing.query_type = "semantic"
    /\ listing' = [listing EXCEPT
           !.done = TRUE,
           !.results = format_results(listing.raw_results, listing.min_score, "semantic")]
    /\ UNCHANGED <<protocolVars, store, chunking, fusion, tool, ingest, lifecycle, fetch>>

\* SearchService.query, QueryType.KEYWORD branch.
query_keyword ==
    /\ ~listing.done
    /\ listing.query_type = "keyword"
    /\ listing' = [listing EXCEPT
           !.done = TRUE,
           !.results = format_results(listing.raw_results, listing.min_score, "keyword")]
    /\ UNCHANGED <<protocolVars, store, chunking, fusion, tool, ingest, lifecycle, fetch>>

\* min_score of a semantic or keyword query: unset, and two thresholds
\* between the scores the rows can have.
MinScores == {Zero, <<1, 4>>, <<3, 5>>}

ListingInit ==
    /\ ProtocolIdle
    /\ store = NoStore
    /\ chunking = NoChunking
    /\ fusion = NoFusion
    /\ tool = NoTool
    /\ ingest = NoIngest
    /\ lifecycle = NoLifecycle
    /\ fetch = NoFetch
    /\ \E min_score \in MinScores :
           \/ \E raw \in SemanticRaw : listing = Listing("semantic", raw, min_score)
           \/ \E raw \in KeywordRaw : listing = Listing("keyword", raw, min_score)

ListingNext == query_semantic \/ query_keyword

ListingSpec == ListingInit /\ [][ListingNext]_vars

\* ------------------------------------------------------- tools of the server
MaxRequests == 2     \* tool calls a client makes one after the other

\* What the caller of a tool gets.
Returned == [kind |-> "returned", code |-> 0]
McpError(code) == [kind |-> "McpError", code |-> code]
Raised(class) == [kind |-> class, code |-> 0]

\* QueryType(query_type) does not raise ValueError.
IsQueryType(query_type) == query_type \in {"semantic", "keyword", "hybrid"}

\* Query(text=..., limit=..., min_score=...) passes the field constraints:
\* text min_length=1, limit ge=1 le=50, min_score None or ge=0.0 le=1.0
\* (min_score in tenths, -1 for None).
QueryValidates(args) ==
    /\ Len(args.query) >= 1
    /\ args.limit >= 1 /\ args.limit <= 50
    /\ args.min_score = -1 \/ (args.min_score >= 0 /\ args.min_score <= 10)

\* UUID(chunk_id) does not raise ValueError.
IsUuid(chunk_id) == chunk_id = "uuid"

\* _get_services as the tools see it: it returns the services, raises
\* McpError -32001 when health_check fails, or lets the exception of
\* VectorStore.initialize through.
\* With the global _vector_store set by an earlier call the if block is
\* skipped and the services are returned.
_get_services(env) ==
    IF env._vector_store # "None" THEN Returned
    ELSE CASE env.services = "ready" -> Returned
           [] env.services = "empty" -> McpError(-32001)
           [] OTHER -> Raised("Exception")

\* The global _vector_store after _get_services ran: it is assigned before
\* initialize and health_check are called on it, and nothing unsets it.
\* "checked": the store passed health_check; "failed": it did not.
vector_store_after(env) ==
    IF env._vector_store # "None" THEN env._vector_store
    ELSE IF env.services = "ready" THEN "checked" ELSE "failed"

\* query_docs: the outcome and the components reached.
query_docs_call(args, env) ==
    IF _get_services(env) # Returned
    THEN [outcome |-> _get_services(env), reached |-> {"_get_services"}]
    ELSE IF ~IsQueryType(args.query_type)
    THEN [outcome |-> McpError(-32602), reached |-> {"_get_services"}]
    ELSE IF ~QueryValidates(args)
    THEN [outcome |-> Raised("ValidationError"), reached |-> {"_get_services"}]
    ELSE IF env.search = "raises"
    THEN [outcome |-> McpError(-32603),
          reached |-> {"_get_services", "search_service.query"}]
    ELSE [outcome |-> Returned,
          reached |-> {"_get_services", "search_service.query"}]

\* get_chunk: the outcome and the components reached.
get_chunk_call(args, env) ==
    IF ~IsUuid(args.chunk_id)
    THEN [outcome |-> McpError(-32602), reached |-> {}]
    ELSE IF _get_services(env) # Returned
    THEN [outcome |-> _get_services(env), reached |-> {"_get_services"}]
    ELSE IF env.chunk = "raises"
    THEN [outcome |-> Raised("Exception"),
          reached |-> {"_get_services", "vector_store.get_chunk"}]
    ELSE IF env.chunk = "missing"
    THEN [outcome |-> McpError(-32002),
          reached |-> {"_get_services", "vector_store.get_chunk"}]
    ELSE [outcome |-> Returned,
          reached |-> {"_get_services", "vector_store.get_chunk"}]

query_docs ==
    /\ ~tool.done
    /\ tool.name = "query_docs"
    /\ LET r == query_docs_call(tool.args, tool.env)
       IN  tool' = [tool EXCEPT !.done = TRUE, !.outcome = r.outcome,
                                !.reached = r.reached,
                                !.env._vector_store =
                                    IF "_get_services" \in r.reached
                                    THEN vector_store_after(tool.env) ELSE @]
    /\ UNCHANGED <<protocolVars, store, chunking, fusion, listing, ingest, lifecycle, fetch>>

get_chunk_tool ==
    /\ ~tool.done
    /\ tool.name = "get_chunk"
    /\ LET r == get_chunk_call(tool.args, tool.env)
       IN  tool' = [tool EXCEPT !.done = TRUE, !.outcome = r.outcome,
                                !.reached = r.reached,
                                !.env._vector_store =
                                    IF "_get_services" \in r.reached
                                    THEN vector_store_after(tool.env) ELSE @]
    /\ UNCHANGED <<protocolVars, store, chunking, fusion, listing, ingest, lifecycle, fetch>>

\* Arguments of query_docs: valid ones and one invalid value per parameter.
QueryDocsArgs ==
    [query : {"", "how"}, limit : {0, 5, 51},
     query_type : {"semantic", "fuzzy"}, min_score : {-1, 5, 15}]

\* Arguments of get_chunk.
GetChunkArgs == [chunk_id : {"uuid", "not-a-uuid"}]

\* The services during a call: the store is ready, empty (health_check
\* false) or cannot be opened; the search and the chunk lookup work or raise.
\* _vector_store is the module global, None when the server starts.
Environments ==
    [services : {"ready", "empty", "broken"}, search : {"returns", "raises"},
     chunk : {"found", "missing", "raises"}, _vector_store : {"None"}]

\* The next request of a client reaches the server after the last one ended:
\* the globals are as that call left them, the rest may have changed.
next_request ==
    /\ tool.done
    /\ tool.requests < MaxRequests
    /\ \E env \in Environments :
           LET now_env == [env EXCEPT !._vector_store = tool.env._vector_store]
           IN  \/ \E args \in QueryDocsArgs :
                      tool' = [ToolCall("query_docs", args, now_env)
                                   EXCEPT !.requests = tool.requests + 1]
               \/ \E args \in GetChunkArgs :
                      tool' = [ToolCall("get_chunk", args, now_env)
                                   EXCEPT !.requests = tool.requests + 1]
    /\ UNCHANGED <<protocolVars, store, chunking, fusion, listing, ingest, lifecycle, fetch>>

ToolInit ==
    /\ ProtocolIdle
    /\ store = NoStore
    /\ chunking = NoChunking
    /\ fusion = NoFusion
    /\ listing = NoListing
    /\ ingest = NoIngest
    /\ lifecycle = NoLifecycle
    /\ fetch = NoFetch
    /\ \E env \in Environments :
           \/ \E args \in QueryDocsArgs : tool = ToolCall("query_docs", args, env)
           \/ \E args \in GetChunkArgs : tool = ToolCall("get_chunk", args, env)

ToolNext == query_docs \/ get_chunk_tool \/ next_request

ToolSpec == ToolInit /\ [][ToolNext]_vars

\* ----------------------------------------------- build: parse and chunk
MaxFiles == 3        \* cached documents of one source

\* What processing one cached page or file does: its chunks are produced,
\* the read or the parser raises, the chunker raises, or (GitHub files) the
\* extension is unknown and the file is passed over.
PageOutcomes == {"chunks", "parse raises", "chunk raises"}
FileOutcomes == PageOutcomes \cup {"unknown type"}

\* A loop whose try block has no except clause: the exception leaves the loop.
exception_leaves_loop(run) == [run EXCEPT !.raised = TRUE]

\* except Exception as e: print a warning; continue
except_continue(run) == [run EXCEPT !.i = @ + 1]

\* One iteration of the for loop over the cached documents.
Iteration(run) ==
    CASE run.files[run.i] = "chunks" ->
             [run EXCEPT !.all_chunks = Append(@, run.i), !.i = @ + 1]
      [] run.files[run.i] = "unknown type" -> [run EXCEPT !.i = @ + 1]
      [] OTHER -> except_continue(run)

\* _parse_and_chunk_websites: the loop over the cached HTML pages.
_parse_and_chunk_websites ==
    /\ ingest.source = "websites"
    /\ ~ingest.raised
    /\ ingest.i <= Len(ingest.files)
    /\ ingest' = Iteration(ingest)
    /\ UNCHANGED <<protocolVars, store, chunking, fusion, listing, tool, lifecycle, fetch>>

\* _parse_and_chunk_github: the loop over the cached files of a repository.
_parse_and_chunk_github ==
    /\ ingest.source = "github"
    /\ ~ingest.raised
    /\ ingest.i <= Len(ingest.files)
    /\ ingest' = Iteration(ingest)
    /\ UNCHANGED <<protocolVars, store, chunking, fusion, listing, tool, lifecycle, fetch>>

IngestInit ==
    /\ ProtocolIdle
    /\ store = NoStore
    /\ chunking = NoChunking
    /\ fusion = NoFusion
    /\ listing = NoListing
    /\ tool = NoTool
    /\ \E n \in 1..MaxFiles :
           \/ \E files \in [1..n -> PageOutcomes] : ingest = Ingest("websites", files)
           \/ \E files \in [1..n -> FileOutcomes] : ingest = Ingest("github", files)
    /\ lifecycle = NoLifecycle
    /\ fetch = NoFetch

IngestNext == _parse_and_chunk_websites \/ _parse_and_chunk_github

IngestSpec == IngestInit /\ [][IngestNext]_vars

\* ---------------------------------------------------- startup and shutdown
\* _startup_sync(): everything is inside one try whose except logs, so the
\* call ends where its first exception is raised, with the globals assigned
\* before that point.
_startup_sync ==
    /\ lifecycle.pc = "main"
    /\ LET at == lifecycle.startup
           scheduler == at \in {"orchestrator_failed", "configure_failed",
                                "start_failed", "started"}
           orchestrator == at \in {"configure_failed", "start_failed", "started"}
       IN lifecycle' = [lifecycle EXCEPT
                           !.pc = "serving",
                           !._scheduler = scheduler,
                           !._refresh_orchestrator = orchestrator,
                           !.job = at \in {"start_failed", "started"},
                           !.running = (at = "started")]
    /\ UNCHANGED <<protocolVars, store, chunking, fusion, listing, tool, ingest, fetch>>

\* Faulty variant of the first step of _shutdown_sync: no try around
\* stop_scheduler_sync.
stop_uncaught(l) ==
    IF l.stop = "raises" THEN "raised" ELSE "returned"

\* try: _refresh_orchestrator.stop_scheduler_sync() except Exception: log.
\* stop_scheduler_sync calls scheduler.remove_job("doc_refresh") and catches
\* JobLookupError itself (the job is not there); any other exception of
\* remove_job reaches the except of _shutdown_sync.
try_stop(l) ==
    IF l.stop = "raises" THEN "logged" ELSE "returned"

\* _shutdown_sync(): the two steps, each under its own if and try.
\* shutdown(wait=False) raises on a scheduler that is not running.
_shutdown_sync ==
    /\ lifecycle.pc = "serving"
    /\ LET l == lifecycle
           first == IF l._refresh_orchestrator THEN try_stop(l) ELSE "skipped"
           second == IF first = "raised" \/ ~l._scheduler THEN "skipped"
                     ELSE IF l.shutdown = "raises" \/ ~l.running THEN "logged"
                     ELSE "returned"
       IN lifecycle' = [l EXCEPT
              !.pc = "exited",
              !.calls = (IF first = "skipped" THEN <<>> ELSE <<"stop_scheduler_sync">>)
                        \o (IF second = "skipped" THEN <<>> ELSE <<"shutdown(wait=False)">>),
              !.logged = (IF first = "logged"
                          THEN <<"Error shutting down refresh orchestrator">> ELSE <<>>)
                         \o (IF second = "logged"
                             THEN <<"Error shutting down scheduler">> ELSE <<>>),
              !.job = IF first = "skipped" \/ l.stop = "raises" THEN @ ELSE FALSE,
              !.running = IF second = "returned" THEN FALSE ELSE @,
              !.raised = (first = "raised")]
    /\ UNCHANGED <<protocolVars, store, chunking, fusion, listing, tool, ingest, fetch>>

LifecycleInit ==
    /\ ProtocolIdle
    /\ store = NoStore
    /\ chunking = NoChunking
    /\ fusion = NoFusion
    /\ listing = NoListing
    /\ tool = NoTool
    /\ ingest = NoIngest
    /\ \E startup \in {"load_failed", "disabled", "scheduler_failed",
                        "orchestrator_failed", "configure_failed", "start_failed",
                        "started"},
          stop \in {"removed", "JobLookupError", "raises"},
          shutdown \in {"ok", "raises"} :
          lifecycle = [NoLifecycle EXCEPT !.startup = startup, !.stop = stop,
                                          !.shutdown = shutdown]
    /\ fetch = NoFetch

LifecycleSpec == LifecycleInit /\ [][_startup_sync \/ _shutdown_sync]_vars

\* ----------------------------------------------------------- WebsiteFetcher
MaxAttempts == 3     \* largest max_retries exercised (the default)

\* WebsiteFetcher._should_retry(status_code, attempt).
_should_retry(status_code, attempt, max_retries) ==
    IF 400 <= status_code /\ status_code < 500 THEN FALSE
    ELSE status_code >= 500 /\ attempt < max_retries - 1

\* FetchResult(status=..., success=...): the constructor raises a
\* ValidationError for a status outside the field's bounds (ge=100, le=599).
FetchResult(status, success, requests) ==
    IF status >= 100 /\ status <= 599
    THEN [outcome |-> "returned", status |-> status, success |-> success,
          requests |-> requests]
    ELSE [outcome |-> "raised", status |-> status, success |-> FALSE,
          requests |-> requests]

\* The for loop of _fetch_with_retries from `attempt` on, after `requests`
\* calls of client.get whose last response had status last_status (0: none).
RECURSIVE Attempts(_, _, _, _, _)
Attempts(attempt, max_retries, responses, requests, last_status) ==
    IF attempt >= max_retries
    THEN FetchResult(last_status, FALSE, requests)
    ELSE LET r == responses[attempt + 1]
             code == r.status_code
         IN  IF r.kind # "response"
             THEN IF attempt < max_retries - 1
                  THEN Attempts(attempt + 1, max_retries, responses, requests + 1,
                                last_status)
                  ELSE FetchResult(0, FALSE, requests + 1)
             ELSE IF 400 <= code /\ code < 500
             THEN FetchResult(code, FALSE, requests + 1)
             ELSE IF _should_retry(code, attempt, max_retries)
             THEN Attempts(attempt + 1, max_retries, responses, requests + 1, code)
             ELSE IF code >= 500
             THEN FetchResult(code, FALSE, requests + 1)
             ELSE FetchResult(code, 200 <= code /\ code < 300, requests + 1)

\* WebsiteFetcher._fetch_with_retries(url, start_time).
_fetch_with_retries ==
    /\ ~fetch.done
    /\ fetch.responses # <<>>
    /\ LET result == Attempts(0, fetch.max_retries, fetch.responses, 0, 0)
       IN  fetch' = [fetch EXCEPT !.done = TRUE,
                                  !.requests = result.requests,
                                  !.outcome = result.outcome,
                                  !.status = result.status,
                                  !.success = result.success]
    /\ UNCHANGED <<protocolVars, store, chunking, fusion, listing, tool, ingest, lifecycle>>

\* client.get answers each attempt with a response (2xx, 3xx, 4xx, 5xx)
\* or raises httpx.TimeoutException or httpx.NetworkError.
FetchInit ==
    /\ ProtocolIdle
    /\ store = NoStore
    /\ chunking = NoChunking
    /\ fusion = NoFusion
    /\ listing = NoListing
    /\ tool = NoTool
    /\ ingest = NoIngest
    /\ lifecycle = NoLifecycle
    /\ \E n \in 1..MaxAttempts :
       \E responses \in
              [1..n -> {[kind |-> "response", status_code |-> code] :
                            code \in {200, 304, 404, 503}}
                       \cup {[kind |-> "TimeoutException", status_code |-> 0],
                             [kind |-> "NetworkError", status_code |-> 0]}] :
           fetch = [NoFetch EXCEPT !.max_retries = n, !.responses = responses]

FetchSpec == FetchInit /\ [][_fetch_with_retries]_vars

\* ------------------------------------------------------------------ properties
\* A swap_databases call is between its integrity check and its return or raise.
SwapRunning == swapPc \in {"backup", "promote", "prune", "except"}

\* Query q is inside the with _db_swap_lock block of _get_services.
InCriticalSection(q) == queryPc[q] \in {"init", "health"}

\* A candidate the verification must reject.
Invalid(f) == ~f.exists \/ ~f.ok \/ ~(RequiredTables \subseteq f.tables)

\* C1: while swap_databases runs, or after it was abandoned at any step, the
\* live path of a call that renamed a live store away holds the complete old
\* store or the complete new one, never a missing or empty one.
C1_ReaderFindsOldOrNew ==
    ((SwapRunning \/ swapPc = "abandoned") /\ swBacked.exists)
        => live \in {swBacked, swSeen}

\* C2: a swap_databases call whose candidate is missing, fails the integrity
\* check or lacks a required table raises at once, having renamed and deleted
\* nothing: the live store and the backups are what they were before the call.
C2_InvalidCandidateRaisesUntouched ==
    [][(swaps' = swaps + 1 /\ Invalid(temp))
         => (/\ swapPc' = "raised"
             /\ swErr' # "none"
             /\ swOps' = {}
             /\ live' = live
             /\ backups' = backups
             /\ temp' = temp)]_vars

\* C2 happens: a call has raised on a candidate file that lacks a required
\* table, while a live store and a backup exist.
C2_Witness ==
    /\ swapPc = "raised"
    /\ swSeen.exists /\ swSeen.ok /\ Invalid(swSeen)
    /\ swOps = {}
    /\ live.exists
    /\ DOMAIN backups # {}

\* C3: no query is inside the critical section of _get_services while
\* swap_databases is between its two renames or rolling back.
C3_InitAndRenamesExclusive ==
    \A q \in Queries : ~(InCriticalSection(q) /\ swapPc \in {"promote", "except"})

C5_RollbackRestoresUnlessItFails ==
    [][(/\ swapPc = "except"
        /\ swapPc' = "raised"
        /\ swBacked.exists
        /\ swErr' = "Database swap failed")
          => (live' = swBacked /\ swName \notin DOMAIN backups')]_vars

\* C5 (as stated): whenever the promotion has failed after the live store was
\* renamed to its backup, the live path holds that store again when the call
\* raises.
C5_RollbackAlwaysRestores ==
    [][(/\ swapPc = "except"
        /\ swapPc' = "raised"
        /\ swBacked.exists)
          => live' = swBacked]_vars

\* C5 happens: the promotion failed after the backup was made, and the
\* rollback renamed the backup into the live path.
C5_Witness ==
    /\ swapPc = "raised"
    /\ swBacked.exists
    /\ "rename active->backup" \in swOps
    /\ "rename backup->active" \in swOps
    /\ swErr = "Database swap failed"
    /\ live = swBacked

\* C6: after a swap_databases that found a live store has returned, with no
\* file operation having failed, exactly one backup exists and it is the
\* store that was live immediately before the call.
C6_OneBackupOfPreviousLive ==
    (swapPc = "returned" /\ swBacked.exists /\ faults = 0)
        => (DOMAIN backups = {swName} /\ backups[swName] = swBacked)

\* C7: at most one refresh_once is in flight at any time.
C7_OneRefreshInFlight ==
    Cardinality({r \in Refreshers : refreshPc[r] # "idle"}) <= 1

\* C8: a refresh never holds _db_swap_lock during its cleanup and build, so
\* a query waiting for the lock waits only while another query is inside
\* the critical section of _get_services.
C8_BuildOutsideLock ==
    /\ lockHolder \notin Refreshers
    /\ \A q \in Queries :
          (queryPc[q] = "waiting" /\ \A p \in Queries : ~InCriticalSection(p))
              => ENABLED _get_services_acquire(q)

\* C8 happens: a query is inside the critical section while a refresh is
\* between its cleanup and the end of its build.
C8_Witness ==
    /\ \E r \in Refreshers : refreshPc[r] = "build"
    /\ \E q \in Queries : InCriticalSection(q) /\ lockHolder = q
    /\ \E q \in Queries : queryPc[q] = "waiting"

\* C9: every holder of _db_swap_lock releases it, also when the
\* initialisation or the health check raises, and every call of _get_services
\* that waits for the lock eventually returns or raises.
C9_GetServicesCompletes ==
    \A q \in Queries :
       /\ (lockHolder = q) ~> (lockHolder # q)
       /\ (queryPc[q] = "waiting") ~> (queryPc[q] \in {"returned", "raised"})

\* C9 happens: a call waits for the lock while another call, whose
\* initialisation is about to run, holds it.
C9_Witness ==
    \E q, p \in Queries :
       queryPc[q] = "waiting" /\ queryPc[p] = "init" /\ lockHolder = p

\* C10: a refresh_once whose build left a valid candidate returns a
\* RefreshResult with success true.
C10_ValidCandidateRefreshSucceeds ==
    (refreshResult.returned /\ refreshResult.built = "full") => refreshResult.success

\* C11: once a swap_databases call has returned, the store a read of a tool
\* call opens is the store at the live path: it holds the rows the swap
\* promoted, not the rows of the store the swap replaced nor of any backup.
C11_ReadsAfterSwapSeeNewStore ==
    (swapPc = "returned")
        => (/\ _get_connection = live
            /\ swBacked.exists => _get_connection.data # swBacked.data
            /\ \A n \in DOMAIN backups : _get_connection.data # backups[n].data)

\* C11 happens: a swap that replaced a live store has returned while a tool
\* call whose services were initialised before the swap is about to read.
C11_Witness ==
    /\ swapPc = "returned"
    /\ swBacked.exists /\ swBacked.data # 0
    /\ vector_store
    /\ \E q \in Queries : queryPc[q] = "returned"
    /\ live.data # swBacked.data

\* C12: after an insert_chunk call that raised, later reads find the tables
\* as they were before the call, for file and for in-memory stores.
C12_FailedInsertLeavesNothing ==
    (store.result = "raised") => (store.tables = store.before)

\* C13: after an insert_chunk call that returned, the store holds one row of
\* chunks, vec_chunks and chunks_fts for the chunk's id, all of the inserted
\* version: get_chunk returns that version and keyword_search returns the
\* chunk once.
C13_InsertIsUpsert ==
    (store.result = "ok")
        => (/\ get_chunk(store.tables, store.id) = store.version
            /\ store.tables.vec_chunks[store.id] = store.version
            /\ keyword_search(store.tables, store.id) = <<store.version>>)

\* chunk() has returned or raised for a document without sections.
FlatDone == chunking.done /\ chunking.sections = <<>>

\* chunk() has returned or raised for a document with sections.
SectionedDone == chunking.done /\ chunking.sections # <<>>

\* C14: for a document with no sections every chunk returned by chunk() has
\* token_count <= chunk_size_tokens, and a text of 1..chunk_size_tokens
\* tokens comes back as exactly one chunk holding the whole text.
C14_FlatChunksWithinSize ==
    FlatDone
        => (/\ \A i \in 1..Len(chunking.out) :
                   chunking.out[i].token_count <= chunk_size_tokens
            /\ (chunking.text >= 1 /\ chunking.text <= chunk_size_tokens)
                   => (/\ ~chunking.raised
                       /\ Len(chunking.out) = 1
                       /\ chunking.out[1].start = 0
                       /\ chunking.out[1].end = chunking.text
                       /\ chunking.out[1].token_count = chunking.text))

\* C14 happens: a flat text of exactly chunk_size_tokens tokens was chunked.
C14_Witness ==
    /\ FlatDone
    /\ chunking.text = chunk_size_tokens
    /\ Len(chunking.out) = 1

\* C15: a flat text of N > chunk_size_tokens tokens is split so that chunk i
\* (from 0) covers tokens [i*(T-O), min(i*(T-O)+T, N)): consecutive chunks
\* share exactly chunk_overlap_tokens tokens, every chunk but the last has
\* chunk_size_tokens tokens, and the last chunk ends at token N.
C15_SplitCoversWithOverlap ==
    (FlatDone /\ chunking.text > chunk_size_tokens)
        => LET out == chunking.out
               n == Len(out)
               stride == chunk_size_tokens - chunk_overlap_tokens
           IN  /\ ~chunking.raised
               /\ n >= 2
               /\ \A i \in 1..n :
                      /\ out[i].start = (i - 1) * stride
                      /\ out[i].end = Min((i - 1) * stride + chunk_size_tokens,
                                          chunking.text)
                      /\ out[i].token_count = out[i].end - out[i].start
               /\ \A i \in 1..(n - 1) :
                      /\ out[i].token_count = chunk_size_tokens
                      /\ out[i].end - out[i + 1].start = chunk_overlap_tokens
                      /\ out[i].end < chunking.text
               /\ out[n].end = chunking.text

\* C15 happens: a flat text was split into three chunks or more.
C15_Witness ==
    /\ FlatDone
    /\ chunking.text > chunk_size_tokens
    /\ Len(chunking.out) >= 3

\* C16: for a document with sections every chunk chunk() returns has
\* token_count <= chunk_size_tokens, except a chunk made on the 20%-tolerance
\* path (the merge of the trailing buffer into the last chunk), whose
\* token_count is <= 1.2 * chunk_size_tokens.
C16_SectionChunksWithinSize ==
    SectionedDone
        => \A i \in 1..Len(chunking.out) :
               \/ chunking.out[i].token_count <= chunk_size_tokens
               \/ /\ chunking.out[i].via = "merged"
                  /\ 5 * chunking.out[i].token_count <= 6 * chunk_size_tokens

\* C16 happens: sections were chunked, the tolerance was used while
\* accumulating or merging, and a returned chunk is over chunk_size_tokens.
C16_Witness ==
    /\ SectionedDone
    /\ \E i \in 1..Len(chunking.out) :
           /\ chunking.out[i].via = "merged"
           /\ chunking.out[i].token_count > chunk_size_tokens

\* C17: for a document with sections, a chunk with token_count below
\* min_chunk_size_tokens is returned only as the last chunk of the document;
\* every other undersized aggregate was merged into the chunk before it.
C17_UndersizedOnlyLast ==
    (SectionedDone /\ ~chunking.raised)
        => \A i \in 1..(Len(chunking.out) - 1) :
               chunking.out[i].token_count >= min_chunk_size_tokens

\* C18: the chunks chunk() returns carry chunk_position 0, 1, ..., n-1 in the
\* order they are returned, for flat and for sectioned documents, whatever
\* position each was built with.
C18_PositionsSequential ==
    chunking.done
        => \A i \in 1..Len(chunking.out) : chunking.out[i].chunk_position = i - 1

\* C18 happens: chunk() returned three chunks or more for a sectioned
\* document, of which two were built with the same position.
C18_Witness ==
    /\ SectionedDone
    /\ Len(chunking.out) >= 3
    /\ \E i, j \in 1..Len(BuiltChunks(chunking)) :
           i # j /\ BuiltChunks(chunking)[i].chunk_position
                        = BuiltChunks(chunking)[j].chunk_position

\* The document handed to chunk() has no content: an empty text and no
\* sections, or sections whose contents are all empty.
ZeroLength ==
    /\ chunking.sections = <<>> => chunking.text = 0
    /\ \A i \in 1..Len(chunking.sections) : chunking.sections[i] = 0

\* C19: chunk() never raises, and for a document whose content is zero-length
\* it returns the empty list.
C19_NeverRaisesEmptyYieldsNone ==
    chunking.done
        => (/\ ~chunking.raised
            /\ ZeroLength => chunking.out = <<>>)

Accumulated(id) ==
    LET r1 == RankIn(fusion.semantic_results, id)
        r2 == RankIn(fusion.keyword_results, id)
    IN  Plus(IF r1 > 0 THEN <<1, rrf_k + r1>> ELSE Zero,
             IF r2 > 0 THEN <<1, rrf_k + r2>> ELSE Zero)

\* C21: a hybrid query returns at most limit results, no chunk twice, in
\* order of non-increasing accumulated score, ranked 1..n in that order; the
\* reported (clipped) scores are in the same order.
C21_HybridSortedTruncatedRanked ==
    fusion.done
        => LET results == fusion.results
           IN  /\ Len(results) <= fusion.limit
               /\ \A i, j \in 1..Len(results) :
                      /\ results[i].chunk = results[j].chunk => i = j
                      /\ i < j => /\ ~Less(Accumulated(results[i].chunk),
                                           Accumulated(results[j].chunk))
                                  /\ ~Less(results[i].score, results[j].score)
               /\ \A i \in 1..Len(results) : results[i].rank = i

\* C21 happens: a hybrid query found more chunks than its limit, the first
\* chunk met is not the best one, and two results were returned.
C21_Witness ==
    /\ fusion.done
    /\ Len(fusion.results) = fusion.limit
    /\ Len(fusion.results) >= 2
    /\ \E id \in FoundIds :
           /\ RankIn(fusion.semantic_results, id) + RankIn(fusion.keyword_results, id) > 0
           /\ \A n \in 1..Len(fusion.results) : fusion.results[n].chunk # id
    /\ fusion.results[1].chunk # fusion.semantic_results[1]

\* C22: a semantic or keyword query returns no result whose score is below
\* min_score, and its results carry the ranks 1..n in the returned order.
C22_FilteredAndRankedWithoutGaps ==
    listing.done
        => /\ \A n \in 1..Len(listing.results) :
                  Less(Zero, listing.min_score)
                      => ~Less(listing.results[n].score, listing.min_score)
           /\ \A n \in 1..Len(listing.results) : listing.results[n].rank = n

\* The arguments of the tool call pass the validation of the tool.
ValidArguments ==
    IF tool.name = "query_docs"
    THEN IsQueryType(tool.args.query_type) /\ QueryValidates(tool.args)
    ELSE IsUuid(tool.args.chunk_id)

\* C23: a query_docs or get_chunk call either returns or raises a structured
\* error (McpError with a code); a call with invalid arguments is rejected
\* before any core component is reached.
C23_StructuredErrorsValidatedFirst ==
    tool.done
        => /\ tool.outcome.kind \in {"returned", "McpError"}
           /\ ~ValidArguments => (tool.outcome.kind = "McpError" /\ tool.reached = {})

C25_PromotedCandidateHasWholeSchema ==
    (swapPc \in {"backup", "promote", "prune", "returned"})
        => FullSchema \subseteq swSeen.tables

\* C26: the pruning step of a swap that promoted the candidate always ends
\* with the call returning and the live store untouched; when no unlink
\* failed it leaves min(1, number of backups) backups (retention count 1),
\* and every backup it removed was made before every backup it kept.
C26_PruneKeepsMostRecent ==
    [][(swapPc = "prune" /\ swapPc' \notin {"prune", "abandoned"})
           => /\ swapPc' = "returned"
              /\ live' = live
              /\ (swName # NoName /\ swName \in DOMAIN backups /\ faults' = faults)
                     => /\ Cardinality(DOMAIN backups')
                               = Min(1, Cardinality(DOMAIN backups))
                        /\ \A kept \in DOMAIN backups' :
                               \A gone \in DOMAIN backups \ DOMAIN backups' :
                                   gone < kept]_vars

\* C27: a call of refresh_once goes through cleanup, build and swap in that
\* order, each at most once: it moves from cleanup to the build, from the
\* build to the swap call or to its return, and from the swap call to its
\* return, and only a new call (counted in refreshes) starts at cleanup again.
C27_OneBuildOneSwapPerCall ==
    [][\A r \in Refreshers :
           refreshPc'[r] # refreshPc[r]
               => /\ <<refreshPc[r], refreshPc'[r]>>
                         \in {<<"idle", "build">>, <<"build", "swap">>,
                              <<"build", "idle">>, <<"swap", "idle">>}
                  /\ (refreshPc[r] = "idle") <=> (refreshes' = refreshes + 1)
                  /\ (refreshPc'[r] = "idle") => refreshResult'.returned]_vars

\* C27 happens: a refresh_once call built a candidate, failed at the swap
\* call and returned, and no refresh is running.
C27_Witness ==
    /\ refreshResult.returned
    /\ ~refreshResult.success
    /\ refreshResult.built # "nothing"
    /\ refreshes = 1
    /\ \A r \in Refreshers : refreshPc[r] = "idle"

\* C28: after a refresh cycle failed (at the build or at the swap), the
\* scheduled job runs again: the next tick starts a new refresh_once call.
C28_FailedCycleKeepsSchedule ==
    (/\ refreshResult.returned
     /\ ~refreshResult.success
     /\ refreshes < MaxRefreshes)
        ~> (refreshPc["scheduled"] = "build" /\ refreshes > 1)

\* C28 happens: a cycle failed after building a candidate, and the next tick
\* has started a new cycle.
C28_Witness ==
    /\ refreshResult.returned
    /\ ~refreshResult.success
    /\ refreshResult.built # "nothing"
    /\ refreshes = 2
    /\ refreshPc["scheduled"] = "build"

\* C29: whenever a refresh is about to start its build (cleanup has run), no
\* file exists at the candidate path.
C29_BuildStartsFromCleanSlate ==
    (refreshPc["scheduled"] = "build") => ~temp.exists

\* C30: a page or file whose parsing or chunking raises is skipped and the
\* loop goes on: no exception leaves the loop, and the chunks collected are
\* those of every document processed so far that produced chunks, in order.
C30_FailedDocumentIsSkipped ==
    /\ ~ingest.raised
    /\ ingest.all_chunks
           = SelectSeq([j \in 1..(ingest.i - 1) |-> j],
                       LAMBDA j : ingest.files[j] = "chunks")

\* C30 happens: the loop is through, a document raised and a later document
\* has its chunks collected.
C30_Witness ==
    /\ ingest.i = Len(ingest.files) + 1
    /\ \E j, k \in 1..Len(ingest.files) :
           /\ j < k
           /\ ingest.files[j] \in {"parse raises", "chunk raises"}
           /\ ingest.files[k] = "chunks"
           /\ \E n \in 1..Len(ingest.all_chunks) : ingest.all_chunks[n] = k
\* C31: a file store has no connection open after any operation, returned
\* or raised; an in-memory store that holds its persistent connection runs
\* every operation but close() on that one connection, so the operation
\* starts from the rows the one before left.
C31_ConnectionPerOperationOrPersistent ==
    [][/\ store'.kind = "file" => store'.open = 0
       /\ (store.kind = "memory" /\ store._memory_conn # 0
              /\ store'._memory_conn # 0)
             => /\ store'._memory_conn = store._memory_conn
                /\ store'.used = store._memory_conn
                /\ store'.open = 1
                /\ store'.before = store.tables]_vars

\* An in-memory store whose second insert_chunk found the row of the first.
C31_Witness ==
    /\ store.kind = "memory"
    /\ store.inserts = 2
    /\ store.result = "ok"
    /\ store.used = store._memory_conn
    /\ store.before.chunks[store.id] # 0
    /\ store.closes = 0

\* C32: _shutdown_sync raises nothing; it calls stop_scheduler_sync when an
\* orchestrator is set and then shutdown(wait=False) when a scheduler is set,
\* the second whatever the first did, and calls nothing when neither is set.
C32_ShutdownAttemptsBothNeverRaises ==
    (lifecycle.pc = "exited")
        => /\ ~lifecycle.raised
           /\ lifecycle.calls =
                  (IF lifecycle._refresh_orchestrator
                   THEN <<"stop_scheduler_sync">> ELSE <<>>)
                  \o (IF lifecycle._scheduler
                      THEN <<"shutdown(wait=False)">> ELSE <<>>)

\* A shutdown whose first step failed and whose second step was still made.
C32_Witness ==
    /\ lifecycle.pc = "exited"
    /\ lifecycle.stop = "raises"
    /\ lifecycle.logged = <<"Error shutting down refresh orchestrator">>
    /\ lifecycle.calls = <<"stop_scheduler_sync", "shutdown(wait=False)">>
    /\ ~lifecycle.running

\* C33: a refresh_once call whose build raised ends by raising an exception
\* that carries the build's message, and one whose build left a candidate
\* without the required tables ends by raising "Missing required tables":
\* neither ends by returning a RefreshResult.  (That the live store is left
\* in place by a failed cycle is C4.)
C33_FailedRefreshRaises ==
    /\ (refreshResult.built = "raised")
          => (~refreshResult.returned /\ refreshResult.error = "Build failed")
    /\ (refreshResult.built = "wrong_table")
          => (~refreshResult.returned
              /\ refreshResult.error = "Missing required tables")

\* C34: in the rows keyword_search handed to a keyword query, a row returned
\* earlier has no lower score than a row returned later, every score is in
\* (0, 1], and there are at most as many rows as the limit.
C34_KeywordScoresFollowRanking ==
    (listing.done /\ listing.query_type = "keyword")
        => LET rows == listing.raw_results
           IN /\ \A i, j \in DOMAIN rows : i < j => ~Less(rows[i], rows[j])
              /\ \A i \in DOMAIN rows : Less(Zero, rows[i]) /\ ~Less(One, rows[i])
              /\ Len(rows) <= MaxRaw

\* C35: every chunk chunk() returns has a token_count equal to the number of
\* tokens of its content, the chunk made by merging the trailing buffer into
\* the last emitted chunk included.
C35_TokenCountIsContentLength ==
    (chunking.done /\ ~chunking.raised)
        => \A i \in 1..Len(chunking.out) :
               chunking.out[i].token_count = chunking.out[i].end - chunking.out[i].start

\* C36: for a document with sections, the chunks returned hold the content
\* of every section, whole and in the order of the sections: the pieces of a
\* section start at its first token, leave no gap and end at its last token;
\* read chunk by chunk the pieces never go back to an earlier section; and
\* two chunks that are not neighbours share no token of a section.
C36_SectionsKeptInOrder ==
    (chunking.done /\ ~chunking.raised /\ chunking.sections # <<>>)
        => LET out == chunking.out
               pieces == [n \in 1..Len(out) |-> out[n].sections]
               Of(k) == {<<n, m>> \in (1..Len(out)) \X (1..MaxSections) :
                            m <= Len(pieces[n]) /\ pieces[n][m].index = k}
           IN  /\ \A k \in 1..Len(chunking.sections) :
                      chunking.sections[k] > 0
                          => /\ \E p \in Of(k) : pieces[p[1]][p[2]].from = 0
                             /\ \E p \in Of(k) :
                                    pieces[p[1]][p[2]].to = chunking.sections[k]
                             /\ \A p \in Of(k) :
                                    \/ pieces[p[1]][p[2]].from = 0
                                    \/ \E q \in Of(k) :
                                           /\ q[1] = p[1] - 1
                                           /\ pieces[q[1]][q[2]].to
                                                  >= pieces[p[1]][p[2]].from
                             /\ \A p, q \in Of(k) :
                                    q[1] > p[1] + 1
                                        => pieces[q[1]][q[2]].from
                                               >= pieces[p[1]][p[2]].to
               /\ \A n \in 1..Len(out) : \A m \in 1..Len(pieces[n]) :
                      /\ m > 1 => pieces[n][m - 1].index < pieces[n][m].index
                      /\ n > 1 /\ pieces[n - 1] # <<>>
                             => pieces[n - 1][Len(pieces[n - 1])].index
                                    <= pieces[n][1].index

\* A document of three non-empty sections of which one was split with
\* overlap and the small last one merged into the last chunk of the split.
C36_Witness ==
    /\ chunking.done
    /\ ~chunking.raised
    /\ chunking.joint = 1
    /\ Len(chunking.sections) = 3
    /\ \A k \in 1..3 : chunking.sections[k] > 0
    /\ Len(chunking.out) = 3
    /\ chunking.out[2].via = "split"
    /\ chunking.out[3].via = "merged"
    /\ Len(chunking.out[3].sections) = 2

\* C37: a tool call gets past _get_services, that is _get_services returned
\* the services to it, only with a VectorStore that passed health_check, in
\* this call or in an earlier one.
C37_ReturnedStorePassedHealthCheck ==
    (tool.done /\ tool.reached \ {"_get_services"} # {})
        => tool.env._vector_store = "checked"

\* C38: with chunk size and overlap within the bounds of the configuration
\* the start of the window grows with every pass of the loop that is not the
\* last, and _chunk_section returns for every content length.
C38_SplitTerminates ==
    /\ [][(~chunking.done /\ ~chunking'.done)
             => chunking'.start_token > chunking.start_token]_vars
    /\ <>chunking.done

\* The smallest chunk size with the largest overlap split a long content.
C38_Witness ==
    /\ chunking.done
    /\ chunking.size = 256
    /\ chunking.overlap = 200
    /\ chunking.total_tokens = 1300
    /\ chunking.chunks = 20

\* C39: a _fetch_with_retries call makes at most max_retries requests, none
\* after a 4xx response, and a further request only after a 5xx response, a
\* timeout or a network error; it ends by returning a FetchResult, with
\* success false unless the last response was a 2xx.
C39_BoundedRetriesAlwaysReturns ==
    fetch.done
        => /\ fetch.requests >= 1 /\ fetch.requests <= fetch.max_retries
           /\ \A k \in 1..(fetch.requests - 1) :
                  \/ fetch.responses[k].kind # "response"
                  \/ fetch.responses[k].status_code >= 500
           /\ fetch.outcome = "returned"
           /\ fetch.success
                  = (/\ fetch.responses[fetch.requests].kind = "response"
                     /\ fetch.responses[fetch.requests].status_code >= 200
                     /\ fetch.responses[fetch.requests].status_code < 300)

====
